---------------------------- MODULE Spec2Model ----------------------------
(***************************************************************************)
(* Model of knowledge-mcp: the atom repository (storage.AtomStorage), the  *)
(* catalog index (models.Index behind storage.IndexManager) and the        *)
(* lifecycle operations built on them (tools.UpsertHandler,                *)
(* tools.AtomTools, tools.SearchEngine).                                   *)
(*                                                                         *)
(* Strings the code inspects character by character (IDs, titles, tags,    *)
(* query tokens) are sequences of one-character strings.  An optional      *)
(* value (a Go nil pointer or nil slice versus a value) is a sequence of   *)
(* length 0 (nil) or 1 (the value).                                        *)
(***************************************************************************)
EXTENDS Integers, Sequences, FiniteSets, TLC

\* ------------------------------------------------------------ bounds
NumProcs == 2
MaxCalls == 3
MaxDay == 2
MaxCrashes == 1
MaxInitAtoms == 2

Procs == 1..NumProcs

\* a value per process, as a tuple
PerProc(f) == SubSeq(f, 1, NumProcs)

\* ------------------------------------------------------------ generic helpers
None == <<>>

Some(x) == <<x>>

IsSome(o) == Len(o) = 1

Range(s) == {s[i] : i \in 1..Len(s)}

\* ------------------------------------------------------------ identifiers
DigitChars == <<"0", "1", "2", "3", "4", "5", "6", "7", "8", "9">>

IsDigit(c) == \E d \in 1..10 : DigitChars[d] = c

DigitVal(c) == (CHOOSE d \in 1..10 : DigitChars[d] = c) - 1

RECURSIVE Digits(_)
\* decimal digits of n >= 0, most significant first (the %d of fmt.Sprintf)
Digits(n) == IF n < 10 THEN <<DigitChars[n + 1]>>
             ELSE Digits(n \div 10) \o <<DigitChars[(n % 10) + 1]>>

RECURSIVE ZeroPad(_, _)
\* the 06 of %06d: pad on the left with zeros up to the width, never truncate
ZeroPad(s, width) == IF Len(s) >= width THEN s ELSE ZeroPad(<<"0">> \o s, width)

\* fmt.Sprintf("K-%06d", n)
FormatID(n) == <<"K", "-">> \o ZeroPad(Digits(n), 6)

RECURSIVE ScanDigits(_, _, _)
\* consume decimal digits of s from position i on, accumulating the value
ScanDigits(s, i, acc) ==
    IF i <= Len(s) /\ IsDigit(s[i])
    THEN ScanDigits(s, i + 1, [n |-> 1, num |-> acc.num * 10 + DigitVal(s[i])])
    ELSE acc

\* fmt.Sscanf(id, "K-%d", &num): n is the number of items scanned (0 or 1),
\* num the value stored (left at 0 when nothing was scanned)
SscanfKd(id) ==
    IF Len(id) >= 2 /\ id[1] = "K" /\ id[2] = "-"
    THEN IF Len(id) >= 3 /\ id[3] \in {"+", "-"}
         THEN LET r == ScanDigits(id, 4, [n |-> 0, num |-> 0])
              IN IF id[3] = "-" THEN [n |-> r.n, num |-> 0 - r.num] ELSE r
         ELSE ScanDigits(id, 3, [n |-> 0, num |-> 0])
    ELSE [n |-> 0, num |-> 0]

\* ------------------------------------------------------------ atoms and entries
AtomStatusDeprecated == "deprecated"

ValidAtomTypes == {"fact", "decision", "procedure", "pattern", "gotcha", "glossary", "snippet"}

ValidAtomStatuses == {"active", "draft", "deprecated"}

ValidConfidences == {"high", "medium", "low"}

\* models.NewIndexEntryFromAtom: the catalog entry is a projection of the atom
NewIndexEntryFromAtom(atom) ==
    [id |-> atom.id, title |-> atom.title, type |-> atom.type,
     status |-> atom.status, confidence |-> atom.confidence,
     language |-> atom.language, tags |-> atom.tags,
     path |-> <<"atoms/", atom.id, ".yaml">>,
     updatedAt |-> atom.updatedAt]

\* ------------------------------------------------------------ models.Index
\* An Index object in memory: arr is the backing array of the Atoms slice (its
\* length is the capacity), len the slice length.  Slots at and after len keep
\* whatever was last stored there.
NilEntry == [id |-> None]

\* models.NewEmptyIndex: version 1, timestamp now, []*IndexEntry{}
NewEmptyIndex(now) == [version |-> 1, updatedAt |-> now, arr |-> <<>>, len |-> 0]

\* idx.Atoms as a value: the first len slots of the backing array
IndexAtoms(ix) == SubSeq(ix.arr, 1, ix.len)

\* position of the first entry with this ID, 0 when there is none
IndexPos(ix, id) ==
    IF \E i \in 1..ix.len : ix.arr[i].id = id
    THEN CHOOSE i \in 1..ix.len :
             /\ ix.arr[i].id = id
             /\ \A j \in 1..(i - 1) : ix.arr[j].id # id
    ELSE 0

\* Index.FindByID: the first entry with this ID, or nil
IndexFindByID(ix, id) ==
    IF IndexPos(ix, id) = 0 THEN None ELSE Some(ix.arr[IndexPos(ix, id)])

\* capacity chosen by append when the backing array is full (runtime growslice,
\* small slices of pointers: 0 -> 1, otherwise doubled)
GrowCap(cap) == IF cap = 0 THEN 1 ELSE 2 * cap

\* a backing array with slot k overwritten
SetAt(arr, k, entry) == SubSeq(arr, 1, k - 1) \o <<entry>> \o SubSeq(arr, k + 1, Len(arr))

RECURSIVE NilSlots(_)
\* n slots of a fresh backing array that nothing was stored in yet
NilSlots(n) == IF n <= 0 THEN <<>> ELSE <<NilEntry>> \o NilSlots(n - 1)

\* append(idx.Atoms, entry): in place when there is spare capacity, otherwise
\* into a fresh backing array
AppendEntry(ix, entry) ==
    IF ix.len < Len(ix.arr)
    THEN [version |-> ix.version, updatedAt |-> ix.updatedAt,
          arr |-> SetAt(ix.arr, ix.len + 1, entry), len |-> ix.len + 1]
    ELSE [version |-> ix.version, updatedAt |-> ix.updatedAt,
          arr |-> SubSeq(ix.arr, 1, ix.len) \o <<entry>>
                  \o NilSlots(GrowCap(Len(ix.arr)) - ix.len - 1),
          len |-> ix.len + 1]

\* fault: an entry with a known ID is written to the first slot
IndexAddOrUpdateFirstSlot(ix, entry, now) ==
    IF IndexPos(ix, entry.id) # 0
    THEN [version |-> ix.version, updatedAt |-> now,
          arr |-> SetAt(ix.arr, 1, entry), len |-> ix.len]
    ELSE [AppendEntry(ix, entry) EXCEPT !.updatedAt = now]

\* Index.AddOrUpdate: replace the entry with the same ID in place, or append
IndexAddOrUpdate(ix, entry, now) ==
    IF IndexPos(ix, entry.id) # 0
    THEN [version |-> ix.version, updatedAt |-> now,
          arr |-> SetAt(ix.arr, IndexPos(ix, entry.id), entry), len |-> ix.len]
    ELSE [AppendEntry(ix, entry) EXCEPT !.updatedAt = now]

\* append(idx.Atoms[:i], idx.Atoms[i+1:]...): the tail is shifted down by one
\* inside the same backing array; the last slot keeps its old content
ShiftOut(ix, pos) ==
    [version |-> ix.version, updatedAt |-> ix.updatedAt,
     arr |-> SubSeq(ix.arr, 1, pos - 1) \o SubSeq(ix.arr, pos + 1, ix.len)
             \o SubSeq(ix.arr, ix.len, Len(ix.arr)),
     len |-> ix.len - 1]

\* fault: Remove takes the last entry out instead of the one with the ID
IndexRemoveLast(ix, id, now) ==
    IF IndexPos(ix, id) # 0
    THEN [ix |-> [ShiftOut(ix, ix.len) EXCEPT !.updatedAt = now], ok |-> TRUE]
    ELSE [ix |-> ix, ok |-> FALSE]

\* fault: Remove reports the entry found and leaves it in the list
IndexRemoveKeepsEntry(ix, id, now) == [ix |-> ix, ok |-> IndexPos(ix, id) # 0]

\* Index.Remove: [ix |-> the index afterwards, ok |-> whether an entry was removed]
IndexRemove(ix, id, now) ==
    IF IndexPos(ix, id) # 0
    THEN [ix |-> [ShiftOut(ix, IndexPos(ix, id)) EXCEPT !.updatedAt = now], ok |-> TRUE]
    ELSE [ix |-> ix, ok |-> FALSE]

RECURSIVE MaxNum(_, _)
\* the loop of Index.GetNextID: the largest parsed number over the atoms so far
MaxNum(atoms, maxNum) ==
    IF atoms = <<>> THEN maxNum
    ELSE LET r == SscanfKd(Head(atoms).id)
         IN MaxNum(Tail(atoms), IF r.n = 1 /\ r.num > maxNum THEN r.num ELSE maxNum)

\* Index.GetNextID
IndexGetNextID(ix) ==
    IF ix.len = 0 THEN FormatID(1) ELSE FormatID(MaxNum(IndexAtoms(ix), 0) + 1)

\* ------------------------------------------------------------ building atoms
\* input.ID != nil && *input.ID != ""
HasID(input) == IsSome(input.id) /\ input.id[1] # <<>>

\* a validation that looks at the type only
ValidInputTypeOnly(input) == input.type \in ValidAtomTypes

\* Upsert's validation of the three closed enums
ValidInput(input) ==
    /\ input.type \in ValidAtomTypes
    /\ input.status \in ValidAtomStatuses
    /\ input.confidence \in ValidConfidences

\* a nil slice of the input becomes the given default
OrElse(opt, default) == IF IsSome(opt) THEN opt[1] ELSE default

\* a create branch that leaves the note list empty
CreateAtomWithoutNote(input, id, today) ==
    [id |-> id, title |-> input.title, type |-> input.type, status |-> input.status,
     confidence |-> input.confidence,
     summary |-> input.summary, details |-> input.details,
     pitfalls |-> OrElse(input.pitfalls, <<>>),
     notes |-> <<>>,
     language |-> input.language, createdAt |-> today, updatedAt |-> today,
     tags |-> OrElse(input.tags, <<>>), sources |-> OrElse(input.sources, <<>>),
     links |-> OrElse(input.links, <<>>), supersedes |-> <<>>, supersededBy |-> None]

\* Upsert, create branch: the atom built for a new ID
CreateAtom(input, id, today) ==
    [id |-> id, title |-> input.title, type |-> input.type, status |-> input.status,
     confidence |-> input.confidence,
     summary |-> input.summary, details |-> input.details,
     pitfalls |-> OrElse(input.pitfalls, <<>>),
     notes |-> <<[date |-> today, note |-> "Initial creation"]>>,
     language |-> input.language, createdAt |-> today, updatedAt |-> today,
     tags |-> OrElse(input.tags, <<>>), sources |-> OrElse(input.sources, <<>>),
     links |-> OrElse(input.links, <<>>), supersedes |-> <<>>, supersededBy |-> None]

\* an update that starts the note list afresh
UpdateAtomResetsNotes(existing, input, today) ==
    [CreateAtom(input, existing.id, today) EXCEPT
        !.details = IF input.details = <<>> THEN existing.details ELSE input.details,
        !.pitfalls = OrElse(input.pitfalls, existing.pitfalls),
        !.tags = OrElse(input.tags, existing.tags),
        !.sources = OrElse(input.sources, existing.sources),
        !.links = OrElse(input.links, existing.links),
        !.notes = <<[date |-> existing.createdAt, note |-> "Initial creation"],
                    [date |-> today, note |-> "Updated"]>>,
        !.createdAt = existing.createdAt,
        !.supersedes = existing.supersedes, !.supersededBy = existing.supersededBy]

\* an update that takes every list from the input, nil or not
UpdateAtomNoFallback(existing, input, today) ==
    [CreateAtom(input, existing.id, today) EXCEPT
        !.notes = Append(existing.notes, [date |-> today, note |-> "Updated"]),
        !.createdAt = existing.createdAt,
        !.supersedes = existing.supersedes, !.supersededBy = existing.supersededBy]

\* UpsertHandler.updateAtom: the atom built from the stored one and the input
UpdateAtom(existing, input, today) ==
    [id |-> existing.id, title |-> input.title, type |-> input.type, status |-> input.status,
     confidence |-> input.confidence,
     summary |-> input.summary,
     details |-> IF input.details = <<>> THEN existing.details ELSE input.details,
     pitfalls |-> OrElse(input.pitfalls, existing.pitfalls),
     notes |-> Append(existing.notes, [date |-> today, note |-> "Updated"]),
     language |-> input.language, createdAt |-> existing.createdAt, updatedAt |-> today,
     tags |-> OrElse(input.tags, existing.tags), sources |-> OrElse(input.sources, existing.sources),
     links |-> OrElse(input.links, existing.links),
     supersedes |-> existing.supersedes, supersededBy |-> existing.supersededBy]

\* AtomTools.DeleteAtom: the loaded atom with status and updated_at overwritten
DeprecatedAtom(atom, today) == [atom EXCEPT !.status = AtomStatusDeprecated, !.updatedAt = today]

\* ------------------------------------------------------------ files
\* The storage directory: dir says whether <root>/atoms exists; yaml and json map
\* the IDs that have a canonical / legacy atom file to the file's content;
\* idxYAML and idxJSON are the optional index files.  A file's content either
\* decodes (ok, with the value) or does not.  noread, noremove and nowrite are
\* the files that os.ReadFile, os.Remove and os.WriteFile fail on (permissions,
\* I/O errors).
Good(v) == [ok |-> TRUE, v |-> v]

Corrupt == [ok |-> FALSE]

EmptyDisk ==
    [dir |-> FALSE, yaml |-> <<>>, json |-> <<>>, idxYAML |-> None, idxJSON |-> None,
     noread |-> {}, noremove |-> {}, nowrite |-> {}]

\* file names, as keys of noread and noremove
YAMLPath(id) == <<"yaml", id>>

JSONPath(id) == <<"json", id>>

IndexPathJSON == <<"json", <<"index">>>>

IndexPath == <<"yaml", <<"index">>>>

Put(f, k, v) == [x \in (DOMAIN f) \cup {k} |-> IF x = k THEN v ELSE f[x]]

Drop(f, k) == [x \in (DOMAIN f) \ {k} |-> f[x]]

\* a document with one more key when the pointer is not nil (omitempty)
WithKey(doc, key, opt) == IF IsSome(opt) THEN Put(doc, key, opt[1]) ELSE doc

\* the value a decoder stores for a key: the zero value when the key is absent
KeyOr(doc, key, zero) == IF key \in DOMAIN doc THEN doc[key] ELSE zero

\* an encoder that writes the content fields at the top level of the document
MarshalAtomFlat(atom) ==
    WithKey(WithKey(
        [id |-> atom.id, title |-> atom.title, type |-> atom.type, status |-> atom.status,
         confidence |-> atom.confidence,
         summary |-> atom.summary, details |-> atom.details,
         pitfalls |-> atom.pitfalls, update_notes |-> atom.notes,
         created_at |-> atom.createdAt, updated_at |-> atom.updatedAt,
         tags |-> atom.tags, sources |-> atom.sources, links |-> atom.links,
         supersedes |-> atom.supersedes],
        "language", atom.language), "superseded_by", atom.supersededBy)

\* yaml.Marshal / json.Marshal of a models.Atom: one key per struct tag, the
\* content nested, language and superseded_by left out when nil
MarshalAtom(atom) ==
    WithKey(WithKey(
        [id |-> atom.id, title |-> atom.title, type |-> atom.type, status |-> atom.status,
         confidence |-> atom.confidence,
         content |-> [summary |-> atom.summary, details |-> atom.details,
                      pitfalls |-> atom.pitfalls, update_notes |-> atom.notes],
         created_at |-> atom.createdAt, updated_at |-> atom.updatedAt,
         tags |-> atom.tags, sources |-> atom.sources, links |-> atom.links,
         supersedes |-> atom.supersedes],
        "language", atom.language), "superseded_by", atom.supersededBy)

\* yaml.Unmarshal / json.Unmarshal into a fresh models.Atom: a key the document
\* lacks leaves the zero value of its field, nil for the two pointers
UnmarshalAtom(doc) ==
    LET content == KeyOr(doc, "content", <<>>)
    IN [id |-> KeyOr(doc, "id", <<>>), title |-> KeyOr(doc, "title", <<>>),
        type |-> KeyOr(doc, "type", ""), status |-> KeyOr(doc, "status", ""),
        confidence |-> KeyOr(doc, "confidence", ""),
        summary |-> KeyOr(content, "summary", <<>>), details |-> KeyOr(content, "details", <<>>),
        pitfalls |-> KeyOr(content, "pitfalls", <<>>), notes |-> KeyOr(content, "update_notes", <<>>),
        language |-> IF "language" \in DOMAIN doc THEN Some(doc["language"]) ELSE None,
        createdAt |-> KeyOr(doc, "created_at", 0), updatedAt |-> KeyOr(doc, "updated_at", 0),
        tags |-> KeyOr(doc, "tags", <<>>), sources |-> KeyOr(doc, "sources", <<>>),
        links |-> KeyOr(doc, "links", <<>>), supersedes |-> KeyOr(doc, "supersedes", <<>>),
        supersededBy |-> IF "superseded_by" \in DOMAIN doc THEN Some(doc["superseded_by"]) ELSE None]

\* yaml.Marshal of a models.IndexEntry: one key per struct tag, language left
\* out when nil
MarshalEntry(entry) ==
    WithKey([id |-> entry.id, title |-> entry.title, type |-> entry.type, status |-> entry.status,
             confidence |-> entry.confidence, tags |-> entry.tags, path |-> entry.path,
             updated_at |-> entry.updatedAt],
            "language", entry.language)

\* yaml.Unmarshal / json.Unmarshal into a fresh models.IndexEntry
UnmarshalEntry(doc) ==
    [id |-> KeyOr(doc, "id", <<>>), title |-> KeyOr(doc, "title", <<>>),
     type |-> KeyOr(doc, "type", ""), status |-> KeyOr(doc, "status", ""),
     confidence |-> KeyOr(doc, "confidence", ""),
     language |-> IF "language" \in DOMAIN doc THEN Some(doc["language"]) ELSE None,
     tags |-> KeyOr(doc, "tags", <<>>), path |-> KeyOr(doc, "path", <<>>),
     updatedAt |-> KeyOr(doc, "updated_at", 0)]

RECURSIVE MarshalEntries(_)
MarshalEntries(entries) ==
    IF entries = <<>> THEN <<>>
    ELSE <<MarshalEntry(Head(entries))>> \o MarshalEntries(Tail(entries))

RECURSIVE UnmarshalEntries(_)
UnmarshalEntries(docs) ==
    IF docs = <<>> THEN <<>>
    ELSE <<UnmarshalEntry(Head(docs))>> \o UnmarshalEntries(Tail(docs))

\* an encoder of the index that writes the newest entry first
MarshalIndexReversed(ix) ==
    [version |-> ix.version, updated_at |-> ix.updatedAt,
     atoms |-> MarshalEntries([k \in 1..ix.len |-> ix.arr[ix.len + 1 - k]])]

\* the index as yaml.Marshal writes it: version, updated_at and the atoms list
MarshalIndex(ix) ==
    [version |-> ix.version, updated_at |-> ix.updatedAt, atoms |-> MarshalEntries(IndexAtoms(ix))]

\* yaml.Unmarshal / json.Unmarshal into a fresh models.Index: the decoded slice
\* has length = capacity = number of list items
UnmarshalIndex(f) ==
    [version |-> KeyOr(f, "version", 0), updatedAt |-> KeyOr(f, "updated_at", 0),
     arr |-> UnmarshalEntries(KeyOr(f, "atoms", <<>>)), len |-> Len(KeyOr(f, "atoms", <<>>))]

\* an index file left by an earlier run, with these entries
IndexFileOf(entries) ==
    Good(MarshalIndex([version |-> 1, updatedAt |-> 0, arr |-> entries, len |-> Len(entries)]))

\* a Load that tries the JSON file first
StorageLoadLegacyFirst(d, id) ==
    IF id \in DOMAIN d.json /\ JSONPath(id) \notin d.noread
    THEN IF d.json[id].ok THEN [err |-> FALSE, atom |-> Some(UnmarshalAtom(d.json[id].v))]
                          ELSE [err |-> TRUE, atom |-> None]
    ELSE IF id \in DOMAIN d.yaml
    THEN IF YAMLPath(id) \notin d.noread /\ d.yaml[id].ok
         THEN [err |-> FALSE, atom |-> Some(UnmarshalAtom(d.yaml[id].v))]
         ELSE [err |-> TRUE, atom |-> None]
    ELSE [err |-> FALSE, atom |-> None]

\* a Load without the JSON fallback
StorageLoadCanonicalOnly(d, id) ==
    IF id \in DOMAIN d.yaml /\ YAMLPath(id) \notin d.noread
    THEN IF d.yaml[id].ok THEN [err |-> FALSE, atom |-> Some(UnmarshalAtom(d.yaml[id].v))]
                          ELSE [err |-> TRUE, atom |-> None]
    ELSE [err |-> FALSE, atom |-> None]

\* AtomStorage.Load: YAML first, then JSON; nil without error when neither exists
StorageLoad(d, id) ==
    IF id \in DOMAIN d.yaml /\ YAMLPath(id) \notin d.noread
    THEN IF d.yaml[id].ok THEN [err |-> FALSE, atom |-> Some(UnmarshalAtom(d.yaml[id].v))]
                          ELSE [err |-> TRUE, atom |-> None]
    ELSE IF id \in DOMAIN d.json
    THEN IF JSONPath(id) \notin d.noread /\ d.json[id].ok
         THEN [err |-> FALSE, atom |-> Some(UnmarshalAtom(d.json[id].v))]
         ELSE [err |-> TRUE, atom |-> None]
    ELSE [err |-> FALSE, atom |-> None]

\* an existence test that looks for the atoms directory only
StorageExistsDirOnly(d, id) == d.dir

\* AtomStorage.Exists
StorageExists(d, id) == id \in DOMAIN d.yaml \/ id \in DOMAIN d.json

\* AtomStorage.Save up to and including os.WriteFile of the YAML file
SaveWriteFile(d, atom) ==
    [d EXCEPT !.dir = TRUE, !.yaml = Put(@, atom.id, Good(MarshalAtom(atom)))]

\* a clean-up that leaves the legacy file where it is
SaveKeepsLegacy(d, id) == d

\* AtomStorage.Save, the clean-up after the write: remove the legacy file if there
SaveRemoveLegacy(d, id) ==
    IF JSONPath(id) \in d.noremove THEN d ELSE [d EXCEPT !.json = Drop(@, id)]

\* AtomStorage.Delete after its two os.Stat calls (yamlExists, jsonExists): a
\* file that is gone by the time of os.Remove makes Delete return an error
StorageDelete(d, id, yamlExists, jsonExists) ==
    IF ~yamlExists /\ ~jsonExists THEN [d |-> d, removed |-> FALSE, err |-> FALSE]
    ELSE IF yamlExists /\ (id \notin DOMAIN d.yaml \/ YAMLPath(id) \in d.noremove)
    THEN [d |-> d, removed |-> FALSE, err |-> TRUE]
    ELSE LET d1 == IF yamlExists THEN [d EXCEPT !.yaml = Drop(@, id)] ELSE d
         IN IF jsonExists /\ (id \notin DOMAIN d1.json \/ JSONPath(id) \in d.noremove)
            THEN [d |-> d1, removed |-> FALSE, err |-> TRUE]
            ELSE [d |-> IF jsonExists THEN [d1 EXCEPT !.json = Drop(@, id)] ELSE d1,
                  removed |-> TRUE, err |-> FALSE]

\* the directory scan shared by RebuildFromAtoms and ListAllIDs: names with the
\* prefix "K-" and the suffix .yaml or .json, without the suffix, deduplicated
HasPrefixK(id) == Len(id) >= 2 /\ id[1] = "K" /\ id[2] = "-"

ScanIDs(d) == {id \in (DOMAIN d.yaml) \cup (DOMAIN d.json) : HasPrefixK(id)}

\* IndexManager.loadLocked when m.index is nil: YAML index first, then JSON, an
\* empty index when neither file exists; err when the file found does not decode
LoadIndexFile(d, now) ==
    IF IsSome(d.idxYAML) /\ IndexPath \notin d.noread
    THEN IF d.idxYAML[1].ok THEN [err |-> FALSE, ix |-> UnmarshalIndex(d.idxYAML[1].v)]
                            ELSE [err |-> TRUE, ix |-> NewEmptyIndex(now)]
    ELSE IF IsSome(d.idxJSON)
    THEN IF IndexPathJSON \notin d.noread /\ d.idxJSON[1].ok
         THEN [err |-> FALSE, ix |-> UnmarshalIndex(d.idxJSON[1].v)]
         ELSE [err |-> TRUE, ix |-> NewEmptyIndex(now)]
    ELSE [err |-> FALSE, ix |-> NewEmptyIndex(now)]

\* whether saveLocked returns the error of os.WriteFile
SaveIndexFails(d) == IndexPath \in d.nowrite

\* the result of a call that ends with saveLocked: its error, or else r
SaveResult(d, r) == IF SaveIndexFails(d) THEN [kind |-> "error"] ELSE r

\* IndexManager.saveLocked with an index cached: create the directories, write
\* index.yaml, remove index.json; after a failed write it returns the error
SaveIndexFile(d, ix) ==
    IF SaveIndexFails(d)
    THEN [d EXCEPT !.dir = TRUE]
    ELSE [d EXCEPT !.dir = TRUE, !.idxYAML = Some(Good(MarshalIndex(ix))),
                   !.idxJSON = IF IndexPathJSON \in d.noremove THEN @ ELSE None]

\* ------------------------------------------------------------ strings
UpperChars == <<"A", "B", "C", "D", "E", "F", "G", "H", "I", "J", "K", "L", "M",
                "N", "O", "P", "Q", "R", "S", "T", "U", "V", "W", "X", "Y", "Z">>

LowerChars == <<"a", "b", "c", "d", "e", "f", "g", "h", "i", "j", "k", "l", "m",
                "n", "o", "p", "q", "r", "s", "t", "u", "v", "w", "x", "y", "z">>

LowerChar(c) ==
    IF \E k \in 1..26 : UpperChars[k] = c
    THEN LowerChars[CHOOSE k \in 1..26 : UpperChars[k] = c]
    ELSE c

\* strings.ToLower
ToLower(s) == [i \in 1..Len(s) |-> LowerChar(s[i])]

\* strings.HasPrefix
HasPrefix(s, t) == Len(t) <= Len(s) /\ SubSeq(s, 1, Len(t)) = t

\* strings.Contains
Contains(s, t) == \E k \in 0..(Len(s) - Len(t)) : SubSeq(s, k + 1, k + Len(t)) = t

\* ------------------------------------------------------------ filters and scores
\* statusPriority / confidencePriority; a key missing from the Go map reads as 0
StatusPriority(st) ==
    IF st = "active" THEN 3 ELSE IF st = "draft" THEN 2 ELSE IF st = "deprecated" THEN 1 ELSE 0

ConfidencePriority(c) ==
    IF c = "high" THEN 3 ELSE IF c = "medium" THEN 2 ELSE IF c = "low" THEN 1 ELSE 0

\* a filter block that lets entries without a language pass the language filter
SearchFilterLanguageUnset(entry, f) ==
    /\ f.types # <<>> => entry.type \in Range(f.types)
    /\ IsSome(f.status) => entry.status = f.status[1]
    /\ IsSome(f.language) => (IsSome(entry.language) => entry.language[1] = f.language[1])
    /\ f.tags # <<>> =>
          \E i \in 1..Len(f.tags), j \in 1..Len(entry.tags) :
              ToLower(entry.tags[j]) = ToLower(f.tags[i])

\* the filter block of SearchEngine.Search / SearchContent: f.types and f.tags are
\* lists (empty = no filter), f.status and f.language optional values
SearchFilter(entry, f) ==
    /\ f.types # <<>> => entry.type \in Range(f.types)
    /\ IsSome(f.status) => entry.status = f.status[1]
    /\ IsSome(f.language) => (IsSome(entry.language) /\ entry.language[1] = f.language[1])
    /\ f.tags # <<>> =>
          \E i \in 1..Len(f.tags), j \in 1..Len(entry.tags) :
              ToLower(entry.tags[j]) = ToLower(f.tags[i])

\* the filter block of AtomTools.ListAtoms: as above, but the tags are compared
\* as written
ListFilter(entry, f) ==
    /\ f.types # <<>> => entry.type \in Range(f.types)
    /\ IsSome(f.status) => entry.status = f.status[1]
    /\ IsSome(f.language) => (IsSome(entry.language) /\ entry.language[1] = f.language[1])
    /\ f.tags # <<>> =>
          \E i \in 1..Len(f.tags), j \in 1..Len(entry.tags) : entry.tags[j] = f.tags[i]

RECURSIVE NormalizeTokens(_)
\* normalizeTokens: drop empty tokens, lower-case the rest
NormalizeTokens(tokens) ==
    IF tokens = <<>> THEN <<>>
    ELSE IF Head(tokens) = <<>> THEN NormalizeTokens(Tail(tokens))
    ELSE <<ToLower(Head(tokens))>> \o NormalizeTokens(Tail(tokens))

\* a token's contribution with the tags left out
TokenScoreTitleOnly(entry, token) ==
    IF Contains(ToLower(entry.title), token)
    THEN 100 + (IF HasPrefix(ToLower(entry.title), token) THEN 50 ELSE 0)
    ELSE 0

\* one token's contribution in calculateScore
TokenScore(entry, token) ==
    (IF Contains(ToLower(entry.title), token)
     THEN 100 + (IF HasPrefix(ToLower(entry.title), token) THEN 50 ELSE 0)
     ELSE 0)
    + (IF \E j \in 1..Len(entry.tags) : Contains(ToLower(entry.tags[j]), token) THEN 30 ELSE 0)

RECURSIVE MatchScore(_, _)
MatchScore(entry, tokens) ==
    IF tokens = <<>> THEN 0
    ELSE TokenScore(entry, Head(tokens)) + MatchScore(entry, Tail(tokens))

\* a score that adds the priorities to an entry no token matches
CalculateScoreKeepsUnmatched(entry, queryTokens) ==
    (IF queryTokens = <<>> THEN 10 ELSE MatchScore(entry, queryTokens))
    + StatusPriority(entry.status) * 5 + ConfidencePriority(entry.confidence) * 3

\* SearchEngine.calculateScore
CalculateScore(entry, queryTokens) ==
    IF queryTokens = <<>>
    THEN 10 + StatusPriority(entry.status) * 5 + ConfidencePriority(entry.confidence) * 3
    ELSE IF MatchScore(entry, queryTokens) = 0 THEN 0
    ELSE MatchScore(entry, queryTokens)
         + StatusPriority(entry.status) * 5 + ConfidencePriority(entry.confidence) * 3

RECURSIVE ContentLoop(_, _, _, _)
\* the token loop of calculateContentScore over the lower-cased content text: a
\* hit while the score is 0 sets it to 20 plus the priorities, any other hit
\* adds 20
ContentLoop(entry, contentText, tokens, score) ==
    IF tokens = <<>> THEN score
    ELSE ContentLoop(entry, contentText, Tail(tokens),
                     IF ~Contains(contentText, Head(tokens)) THEN score
                     ELSE IF score = 0
                     THEN 20 + StatusPriority(entry.status) * 5
                             + ConfidencePriority(entry.confidence) * 3
                     ELSE score + 20)

\* SearchEngine.calculateContentScore: the title/tag score, then the content of
\* the atom when it loads (summary, a space, details)
CalculateContentScore(d, entry, queryTokens) ==
    IF queryTokens = <<>> THEN CalculateScore(entry, queryTokens)
    ELSE LET l == StorageLoad(d, entry.id)
         IN IF ~l.err /\ IsSome(l.atom)
            THEN ContentLoop(entry, ToLower(l.atom[1].summary \o <<" ">> \o l.atom[1].details),
                             queryTokens, CalculateScore(entry, queryTokens))
            ELSE CalculateScore(entry, queryTokens)

\* swap two positions of a sequence
Swap(s, i, j) == [s EXCEPT ![i] = s[j], ![j] = s[i]]

RECURSIVE SortInner(_, _, _)
\* the inner loop of Search's sort: for j from i+1 on, swap when results[j] scores
\* strictly higher than results[i]
SortInner(s, i, j) ==
    IF j > Len(s) THEN s
    ELSE SortInner(IF s[j].score > s[i].score THEN Swap(s, i, j) ELSE s, i, j + 1)

RECURSIVE SortOuter(_, _)
SortOuter(s, i) == IF i > Len(s) THEN s ELSE SortOuter(SortInner(s, i, i + 1), i + 1)

\* the sort of Search / SearchContent
SortByScore(s) == SortOuter(s, 1)

\* a cut that keeps one result more than the limit
TruncateKeepsOneMore(s, limit) == IF Len(s) > limit + 1 THEN SubSeq(s, 1, limit + 1) ELSE s

\* results[:limit] when len(results) > limit
Truncate(s, limit) == IF Len(s) > limit THEN SubSeq(s, 1, limit) ELSE s

\* SearchEngine.formatResult: the entry's fields, the score, and the summary of
\* the atom when it loads
FormatResult(d, r) ==
    [id |-> r.entry.id, title |-> r.entry.title, type |-> r.entry.type, status |-> r.entry.status,
     confidence |-> r.entry.confidence, language |-> r.entry.language, tags |-> r.entry.tags,
     updatedAt |-> r.entry.updatedAt, score |-> r.score,
     summary |-> LET l == StorageLoad(d, r.entry.id)
                 IN IF ~l.err /\ IsSome(l.atom) THEN l.atom[1].summary ELSE <<>>]

\* the fields ListAtoms copies into a result
ListResult(entry) ==
    [id |-> entry.id, title |-> entry.title, type |-> entry.type, status |-> entry.status,
     confidence |-> entry.confidence, language |-> entry.language, tags |-> entry.tags,
     updatedAt |-> entry.updatedAt]

\* ------------------------------------------------------------ inputs
\* IDs callers supply: the first two generated IDs and one that is not of the
\* form K-<digits>
CustomID == <<"X", "-", "1">>

SuppliedIDs == {FormatID(1), CustomID}

TargetIDs == {FormatID(1), FormatID(2), CustomID}

InputA ==
    [id |-> None, title |-> <<"E", "r">>, type |-> "fact", status |-> "active",
     confidence |-> "high", summary |-> <<"s">>, details |-> <<"d">>,
     pitfalls |-> Some(<<"p">>), language |-> Some("go"), tags |-> Some(<<<<"e", "r">>>>),
     sources |-> Some(<<[kind |-> "url", ref |-> "u"]>>),
     links |-> Some(<<[rel |-> "see_also", id |-> FormatID(2)]>>)]

InputB ==
    [id |-> None, title |-> <<"b">>, type |-> "decision", status |-> "draft",
     confidence |-> "low", summary |-> <<>>, details |-> <<>>,
     pitfalls |-> None, language |-> None, tags |-> None, sources |-> None, links |-> None]

UpsertInputs ==
    {[t EXCEPT !.id = i] : t \in {InputA, InputB}, i \in {None} \cup {Some(x) : x \in SuppliedIDs}}

NoFilter == [types |-> <<>>, tags |-> <<>>, status |-> None, language |-> None]

ListInputs ==
    {[f |-> NoFilter, limit |-> 10],
     [f |-> [NoFilter EXCEPT !.status = Some("active")], limit |-> 1]}

SearchInputs ==
    {[query |-> <<>>, f |-> NoFilter, limit |-> 10],
     [query |-> <<<<"E">>>>, f |-> [NoFilter EXCEPT !.types = <<"fact">>], limit |-> 1]}

\* ------------------------------------------------------------ state
\* The two IndexManager objects of a process: main creates one and hands it to
\* the search engine and the upsert handler; NewAtomTools creates its own.
IMs == {"shared", "tools"}

VARIABLES
    disk,      \* the storage directory
    cache,     \* cache[im]: m.index of each IndexManager, None when nil
    mu,        \* mu[im]: the process holding m.mu, 0 when free
    pc,        \* pc[p]: where caller p is in its current call
    loc,       \* loc[p]: the locals of p's current call
    now,       \* the clock (date / timestamp)
    calls,     \* calls started so far
    crashes,   \* crashes so far
    saved,     \* history: the entries of all atoms ever written to the repository
    init0      \* history: the storage directory at start

vars == <<disk, cache, mu, pc, loc, now, calls, crashes, saved, init0>>

NoRet == [kind |-> "none"]

NoLoc ==
    [op |-> "none", arg |-> None, im |-> "tools", today |-> 0, atom |-> None, entry |-> None,
     buf |-> None, yEx |-> FALSE, jEx |-> FALSE, ids |-> {}, errs |-> {},
     live |-> FALSE, arr |-> <<>>, hlen |-> 0, i |-> 0, res |-> <<>>, keep |-> {}, ret |-> NoRet]

\* what stays of a call's locals once it has returned: the call and its result
\* (and, as history, the IDs that were in the index throughout a reader's call)
Returned(l, ret) ==
    [NoLoc EXCEPT !.op = l.op, !.arg = l.arg, !.today = l.today, !.keep = l.keep, !.ret = ret]

\* fault: the index entry is written before the atom file
WriteOrderIndexFirst == <<"addidx", "save">>

\* the order of the two writes of Upsert and DeleteAtom: the atom file, then the
\* index entry
WriteOrder == <<"save", "addidx">>

\* where a call goes after one of its two writes
After(step) == IF step = WriteOrder[1] THEN WriteOrder[2] ELSE "done"

\* the locals after a write: the call's result once both writes are done
AfterWrite(l, step) ==
    IF After(step) = "done" THEN Returned(l, [kind |-> "ok", success |-> TRUE, atom |-> l.atom]) ELSE l

\* the entries of the atoms stored in d (those that decode)
EntriesOf(d) ==
    {NewIndexEntryFromAtom(UnmarshalAtom(d.yaml[id].v)) : id \in {x \in DOMAIN d.yaml : d.yaml[x].ok}}
    \cup {NewIndexEntryFromAtom(UnmarshalAtom(d.json[id].v)) : id \in {x \in DOMAIN d.json : d.json[x].ok}}

\* readers that range over the backing array of im's index keep that array when
\* the index moves to another one
Frozen(l, im) ==
    PerProc([q \in Procs |-> IF l[q].live /\ l[q].im = im
                             THEN [l[q] EXCEPT !.live = FALSE, !.arr = cache[im][1].arr]
                             ELSE l[q]])

\* history: a reader of im's index that has not returned forgets the IDs that
\* are no longer in the index ix
Kept(l, im, ix) ==
    PerProc([q \in Procs |-> IF pc[q] \in {"scan", "finish"} /\ l[q].im = im
                             THEN [l[q] EXCEPT !.keep = @ \cap {ix.arr[k].id : k \in 1..ix.len}]
                             ELSE l[q]])

\* the locals of all processes after im's index became ix (readers are detached
\* when the backing array is a new one)
AfterStore(im, ix, fresh) ==
    Kept(IF IsSome(cache[im]) /\ (fresh \/ Len(cache[im][1].arr) # Len(ix.arr))
         THEN Frozen(loc, im) ELSE loc,
         im, ix)

\* ------------------------------------------------------------ IndexManager calls
IMCallPcs == {"nextid", "addidx", "rmidx", "getidx", "readidx"}

\* fault: a mutex that never blocks
LockNeverBlocks(im) == TRUE

\* m.mu.Lock() succeeds
LockFree(im) == mu[im] = 0

\* fault: a return path that leaves the mutex locked
UnlockForgotten(im) == mu

\* defer m.mu.Unlock()
Unlock(im) == [mu EXCEPT ![im] = 0]

\* p may run the body of its IndexManager call: it holds the lock after a load
\* from disk, or the lock is free and the index is cached (Lock, the body and
\* Unlock are then one step)
CanRun(p) ==
    \/ mu[loc[p].im] = p
    \/ LockFree(loc[p].im) /\ IsSome(cache[loc[p].im])

\* the index p's call works on: the one just loaded, else the cached one
Cur(p) == IF IsSome(loc[p].buf) THEN loc[p].buf[1] ELSE cache[loc[p].im][1]

\* loadLocked read a file (or found none) and is about to set m.index
Loaded(p) == IsSome(loc[p].buf)

\* Lock, then loadLocked with m.index = nil: read the index file.  A file that
\* does not decode makes the call return the error with the lock released.
LoadLocked(p) ==
    /\ pc[p] \in IMCallPcs
    /\ LockFree(loc[p].im)
    /\ cache[loc[p].im] = None
    /\ LET l == LoadIndexFile(disk, now)
       IN IF l.err
          THEN /\ pc' = [pc EXCEPT ![p] = "done"]
               /\ loc' = [loc EXCEPT ![p] = Returned(loc[p], [kind |-> "error"])]
               /\ mu' = mu
          ELSE /\ mu' = [mu EXCEPT ![loc[p].im] = p]
               /\ loc' = [loc EXCEPT ![p].buf = Some(l.ix)]
               /\ pc' = pc
    /\ UNCHANGED <<disk, cache, now, calls, crashes, saved, init0>>

\* IndexManager.GetNextID, called by Upsert's create branch, which then builds
\* the atom
GetNextID(p) ==
    /\ pc[p] = "nextid"
    /\ CanRun(p)
    /\ cache' = [cache EXCEPT ![loc[p].im] = Some(Cur(p))]
    /\ mu' = Unlock(loc[p].im)
    /\ loc' = [AfterStore(loc[p].im, Cur(p), Loaded(p)) EXCEPT
                  ![p].buf = None,
                  ![p].atom = Some(CreateAtom(loc[p].arg, IndexGetNextID(Cur(p)), loc[p].today))]
    /\ pc' = [pc EXCEPT ![p] = WriteOrder[1]]
    /\ UNCHANGED <<disk, now, calls, crashes, saved, init0>>

\* the entry a call hands to IndexManager.AddOrUpdate: NewIndexEntryFromAtom of
\* the atom it wrote, or the entry a direct caller passed
EntryArg(l) == IF IsSome(l.entry) THEN l.entry[1] ELSE NewIndexEntryFromAtom(l.atom[1])

\* IndexManager.AddOrUpdate: Index.AddOrUpdate on the index, then saveLocked
AddOrUpdate(p) ==
    /\ pc[p] = "addidx"
    /\ CanRun(p)
    /\ LET ix == IndexAddOrUpdate(Cur(p), EntryArg(loc[p]), now)
       IN /\ cache' = [cache EXCEPT ![loc[p].im] = Some(ix)]
          /\ disk' = SaveIndexFile(disk, ix)
          /\ loc' = [AfterStore(loc[p].im, ix, Loaded(p)) EXCEPT
                        ![p] = IF SaveIndexFails(disk)
                               THEN Returned(loc[p], [kind |-> "error"])
                               ELSE AfterWrite([loc[p] EXCEPT !.buf = None], "addidx")]
    /\ mu' = Unlock(loc[p].im)
    /\ pc' = [pc EXCEPT ![p] = IF SaveIndexFails(disk) THEN "done" ELSE After("addidx")]
    /\ UNCHANGED <<now, calls, crashes, saved, init0>>

\* IndexManager.Remove: Index.Remove on the index, saveLocked only when an entry
\* was removed
Remove(p) ==
    /\ pc[p] = "rmidx"
    /\ CanRun(p)
    /\ LET r == IndexRemove(Cur(p), loc[p].arg, now)
       IN /\ cache' = [cache EXCEPT ![loc[p].im] = Some(r.ix)]
          /\ disk' = IF r.ok THEN SaveIndexFile(disk, r.ix) ELSE disk
          /\ loc' = [AfterStore(loc[p].im, r.ix, Loaded(p)) EXCEPT
                        ![p] = Returned(loc[p], IF r.ok /\ SaveIndexFails(disk)
                                                THEN [kind |-> "error"]
                                                ELSE [kind |-> "ok", success |-> TRUE, removed |-> r.ok])]
    /\ mu' = Unlock(loc[p].im)
    /\ pc' = [pc EXCEPT ![p] = "done"]
    /\ UNCHANGED <<now, calls, crashes, saved, init0>>

\* IndexManager.GetIndex, and the caller's "range index.Atoms": the slice header
\* (backing array and length) is read once
GetIndex(p) ==
    /\ pc[p] = "getidx"
    /\ CanRun(p)
    /\ cache' = [cache EXCEPT ![loc[p].im] = Some(Cur(p))]
    /\ mu' = Unlock(loc[p].im)
    /\ loc' = [AfterStore(loc[p].im, Cur(p), Loaded(p)) EXCEPT
                  ![p].buf = None, ![p].live = TRUE, ![p].hlen = Cur(p).len, ![p].i = 1,
                  ![p].keep = {Cur(p).arr[k].id : k \in 1..Cur(p).len}]
    /\ pc' = [pc EXCEPT ![p] = IF Cur(p).len = 0 THEN "finish" ELSE "scan"]
    /\ UNCHANGED <<disk, now, calls, crashes, saved, init0>>

\* ------------------------------------------------------------ AtomStorage steps
\* AtomStorage.Save, the write; the caller then builds the index entry
SaveWrite(p) ==
    /\ pc[p] = "save"
    /\ disk' = SaveWriteFile(disk, loc[p].atom[1])
    /\ saved' = saved \cup {NewIndexEntryFromAtom(loc[p].atom[1])}
    /\ IF loc[p].atom[1].id \in DOMAIN disk.json
       THEN /\ pc' = [pc EXCEPT ![p] = "cleanup"]
            /\ loc' = loc
       ELSE /\ pc' = [pc EXCEPT ![p] = After("save")]
            /\ loc' = [loc EXCEPT ![p] = AfterWrite(loc[p], "save")]
    /\ UNCHANGED <<cache, mu, now, calls, crashes, init0>>

\* AtomStorage.Save, the removal of the legacy file found beside the new one
SaveCleanup(p) ==
    /\ pc[p] = "cleanup"
    /\ disk' = SaveRemoveLegacy(disk, loc[p].atom[1].id)
    /\ pc' = [pc EXCEPT ![p] = After("save")]
    /\ loc' = [loc EXCEPT ![p] = AfterWrite(loc[p], "save")]
    /\ UNCHANGED <<cache, mu, now, calls, crashes, saved, init0>>

\* ------------------------------------------------------------ Upsert
\* a call starts: one more call, with fresh locals
Enter(p) ==
    /\ pc[p] \in {"idle", "done"}
    /\ calls < MaxCalls
    /\ calls' = calls + 1
    /\ UNCHANGED <<cache, mu, now, crashes, saved, init0, disk>>

\* UpsertHandler.Upsert up to the point where the atom to write is known or the
\* next ID is needed: validation, today's date, the load of a supplied ID
UpsertBegin(p, input) ==
    /\ Enter(p)
    /\ LET l0 == [NoLoc EXCEPT !.op = "upsert", !.arg = input, !.im = "shared", !.today = now]
           ld == StorageLoad(disk, input.id[1])
       IN IF ~ValidInput(input)
          THEN /\ pc' = [pc EXCEPT ![p] = "done"]
               /\ loc' = [loc EXCEPT ![p] = Returned(l0, [kind |-> "error"])]
          ELSE IF ~HasID(input)
          THEN /\ pc' = [pc EXCEPT ![p] = "nextid"]
               /\ loc' = [loc EXCEPT ![p] = l0]
          ELSE IF ld.err
          THEN /\ pc' = [pc EXCEPT ![p] = "done"]
               /\ loc' = [loc EXCEPT ![p] = Returned(l0, [kind |-> "error"])]
          ELSE /\ pc' = [pc EXCEPT ![p] = WriteOrder[1]]
               /\ loc' = [loc EXCEPT ![p] =
                             [l0 EXCEPT !.atom = IF IsSome(ld.atom)
                                                 THEN Some(UpdateAtom(ld.atom[1], input, now))
                                                 ELSE Some(CreateAtom(input, input.id[1], now))]]

\* ------------------------------------------------------------ AtomTools
\* AtomTools.DeleteAtom up to the atom to write: load, not-found result, status
\* and date
DeleteAtomBegin(p, id) ==
    /\ Enter(p)
    /\ LET l0 == [NoLoc EXCEPT !.op = "deprecate", !.arg = id, !.im = "tools", !.today = now]
           ld == StorageLoad(disk, id)
       IN IF ld.err
          THEN /\ pc' = [pc EXCEPT ![p] = "done"]
               /\ loc' = [loc EXCEPT ![p] = Returned(l0, [kind |-> "error"])]
          ELSE IF ~IsSome(ld.atom)
          THEN /\ pc' = [pc EXCEPT ![p] = "done"]
               /\ loc' = [loc EXCEPT ![p] = Returned(l0, [kind |-> "ok", success |-> FALSE])]
          ELSE /\ pc' = [pc EXCEPT ![p] = WriteOrder[1]]
               /\ loc' = [loc EXCEPT ![p] = [l0 EXCEPT !.atom = Some(DeprecatedAtom(ld.atom[1], now))]]

\* AtomTools.PurgeAtom: the Exists check
PurgeAtomBegin(p, id) ==
    /\ Enter(p)
    /\ LET l0 == [NoLoc EXCEPT !.op = "purge", !.arg = id, !.im = "tools", !.today = now]
       IN IF ~StorageExists(disk, id)
          THEN /\ pc' = [pc EXCEPT ![p] = "done"]
               /\ loc' = [loc EXCEPT ![p] = Returned(l0, [kind |-> "ok", success |-> FALSE])]
          ELSE /\ pc' = [pc EXCEPT ![p] = "delstat"]
               /\ loc' = [loc EXCEPT ![p] = l0]

\* AtomStorage.Delete: the two os.Stat calls
DeleteStat(p) ==
    /\ pc[p] = "delstat"
    /\ loc' = [loc EXCEPT ![p].yEx = loc[p].arg \in DOMAIN disk.yaml,
                          ![p].jEx = loc[p].arg \in DOMAIN disk.json]
    /\ pc' = [pc EXCEPT ![p] = "delrm"]
    /\ UNCHANGED <<disk, cache, mu, now, calls, crashes, saved, init0>>

\* AtomStorage.Delete: the os.Remove calls; PurgeAtom returns Delete's error
DeleteRemove(p) ==
    /\ pc[p] = "delrm"
    /\ LET r == StorageDelete(disk, loc[p].arg, loc[p].yEx, loc[p].jEx)
       IN /\ disk' = r.d
          /\ IF r.err
             THEN /\ pc' = [pc EXCEPT ![p] = "done"]
                  /\ loc' = [loc EXCEPT ![p] = Returned(loc[p], [kind |-> "error"])]
             ELSE /\ pc' = [pc EXCEPT ![p] = "rmidx"]
                  /\ loc' = loc
    /\ UNCHANGED <<cache, mu, now, calls, crashes, saved, init0>>

\* what the caller of RebuildFromAtoms returns: RebuildIndex the number of
\* entries, MigrateAndRebuild also the number of atoms it migrated
RebuildResult(l, ix) ==
    IF l.op = "migrate"
    THEN [kind |-> "ok", success |-> TRUE, count |-> ix.len, migrated |-> l.i]
    ELSE [kind |-> "ok", success |-> TRUE, count |-> ix.len]

\* IndexManager.RebuildFromAtoms from Lock to the directory listing, in a call
\* with the locals l0: a new empty index replaces m.index; without an atoms
\* directory it is saved at once
RebuildFromAtomsBegin(p, l0) ==
    /\ LockFree("tools")
    /\ LET ix == NewEmptyIndex(now)
       IN /\ cache' = [cache EXCEPT !["tools"] = Some(ix)]
          /\ IF ~disk.dir
             THEN /\ disk' = SaveIndexFile(disk, ix)
                  /\ mu' = mu
                  /\ pc' = [pc EXCEPT ![p] = "done"]
                  /\ loc' = [AfterStore("tools", ix, TRUE) EXCEPT
                                ![p] = Returned(l0, SaveResult(disk, RebuildResult(l0, ix)))]
             ELSE /\ disk' = disk
                  /\ mu' = [mu EXCEPT !["tools"] = p]
                  /\ pc' = [pc EXCEPT ![p] = "rbscan"]
                  /\ loc' = [AfterStore("tools", ix, TRUE) EXCEPT
                                ![p] = [l0 EXCEPT !.ids = ScanIDs(disk)]]
    /\ UNCHANGED <<now, crashes, saved, init0>>

\* AtomTools.RebuildIndex: a call of RebuildFromAtoms
RebuildBegin(p) ==
    /\ pc[p] \in {"idle", "done"}
    /\ calls < MaxCalls
    /\ calls' = calls + 1
    /\ RebuildFromAtomsBegin(p, [NoLoc EXCEPT !.op = "rebuild", !.im = "tools", !.today = now])

\* RebuildFromAtoms, one round of "for atomID := range idSet" (Go picks the
\* order): load the atom, note a failure, add the entry of a loaded atom
RebuildLoad(p) ==
    /\ pc[p] = "rbscan"
    /\ \E id \in loc[p].ids :
          LET ld == StorageLoad(disk, id)
          IN /\ cache' = IF ~ld.err /\ IsSome(ld.atom)
                         THEN [cache EXCEPT !["tools"] =
                                  Some(IndexAddOrUpdate(cache["tools"][1], NewIndexEntryFromAtom(ld.atom[1]), now))]
                         ELSE cache
             /\ loc' = [loc EXCEPT ![p].ids = @ \ {id},
                                   ![p].errs = IF ld.err THEN @ \cup {id} ELSE @]
    /\ UNCHANGED <<disk, mu, pc, now, calls, crashes, saved, init0>>

\* RebuildFromAtoms after the loop: saveLocked, Unlock; RebuildIndex reports the
\* number of entries
RebuildSave(p) ==
    /\ pc[p] = "rbscan"
    /\ loc[p].ids = {}
    /\ disk' = SaveIndexFile(disk, cache["tools"][1])
    /\ mu' = Unlock("tools")
    /\ pc' = [pc EXCEPT ![p] = "done"]
    /\ loc' = [loc EXCEPT ![p] = Returned(loc[p], SaveResult(disk, RebuildResult(loc[p], cache["tools"][1])))]
    /\ UNCHANGED <<cache, now, calls, crashes, saved, init0>>

\* ------------------------------------------------------------ MigrateAndRebuild
\* IndexManager.MigrateAndRebuild up to its loop: the directory listing, of
\* which the loop looks at the JSON files named K-...
MigrateBegin(p) ==
    /\ Enter(p)
    /\ pc' = [pc EXCEPT ![p] = "migrate"]
    /\ loc' = [loc EXCEPT ![p] = [NoLoc EXCEPT !.op = "migrate", !.im = "tools", !.today = now,
                                               !.ids = {id \in DOMAIN disk.json : HasPrefixK(id)}]]

\* the next name of the listing (os.ReadDir sorts by file name)
FirstID(ids) == CHOOSE id \in ids : \A other \in ids : SscanfKd(id).num <= SscanfKd(other).num

\* one round of MigrateAndRebuild's loop up to the call of Save: skip the ID when
\* its YAML file exists or its atom does not load
MigrateStep(p) ==
    /\ pc[p] = "migrate"
    /\ loc[p].ids # {}
    /\ LET id == FirstID(loc[p].ids)
           ld == StorageLoad(disk, id)
           skip == id \in DOMAIN disk.yaml \/ ld.err \/ ~IsSome(ld.atom)
       IN IF skip
          THEN /\ loc' = [loc EXCEPT ![p].ids = @ \ {id}]
               /\ pc' = pc
          ELSE /\ loc' = [loc EXCEPT ![p].atom = ld.atom]
               /\ pc' = [pc EXCEPT ![p] = "migsave"]
    /\ UNCHANGED <<disk, cache, mu, now, calls, crashes, saved, init0>>

\* the rest of the round: Save the atom loaded (the write, then the removal of
\* the legacy file) and count it
MigrateSave(p) ==
    /\ pc[p] = "migsave"
    /\ LET atom == loc[p].atom[1]
           d1 == SaveWriteFile(disk, atom)
       IN /\ disk' = IF atom.id \in DOMAIN d1.json THEN SaveRemoveLegacy(d1, atom.id) ELSE d1
          /\ saved' = saved \cup {NewIndexEntryFromAtom(atom)}
    /\ loc' = [loc EXCEPT ![p].ids = @ \ {FirstID(loc[p].ids)}, ![p].i = @ + 1, ![p].atom = None]
    /\ pc' = [pc EXCEPT ![p] = "migrate"]
    /\ UNCHANGED <<cache, mu, now, calls, crashes, init0>>

\* MigrateAndRebuild after the loop: RebuildFromAtoms
MigrateRebuild(p) ==
    /\ pc[p] = "migrate"
    /\ loc[p].ids = {}
    /\ calls' = calls
    /\ RebuildFromAtomsBegin(p, loc[p])

\* ------------------------------------------------------------ GetAtom
\* AtomTools.GetAtom: Load's error, nil for an atom not found, or the atom
GetAtomBegin(p, id) ==
    /\ Enter(p)
    /\ pc' = [pc EXCEPT ![p] = "done"]
    /\ LET l0 == [NoLoc EXCEPT !.op = "get", !.arg = id, !.im = "tools", !.today = now]
           ld == StorageLoad(disk, id)
       IN loc' = [loc EXCEPT ![p] = Returned(l0, IF ld.err THEN [kind |-> "error"]
                                                 ELSE [kind |-> "ok", atom |-> ld.atom])]

\* ------------------------------------------------------------ readers
\* AtomTools.ListAtoms, up to the GetIndex call
ListAtomsBegin(p, in) ==
    /\ Enter(p)
    /\ pc' = [pc EXCEPT ![p] = "getidx"]
    /\ loc' = [loc EXCEPT ![p] = [NoLoc EXCEPT !.op = "list", !.arg = in, !.im = "tools", !.today = now]]

\* SearchEngine.Search, up to the GetIndex call
SearchBegin(p, in) ==
    /\ Enter(p)
    /\ pc' = [pc EXCEPT ![p] = "getidx"]
    /\ loc' = [loc EXCEPT ![p] = [NoLoc EXCEPT !.op = "search", !.arg = in, !.im = "shared", !.today = now]]

\* SearchEngine.SearchContent, up to the GetIndex call
SearchContentBegin(p, in) ==
    /\ Enter(p)
    /\ pc' = [pc EXCEPT ![p] = "getidx"]
    /\ loc' = [loc EXCEPT ![p] = [NoLoc EXCEPT !.op = "content", !.arg = in, !.im = "shared", !.today = now]]

\* the element the range loop of p reads next: slot i of the backing array it
\* holds
Elem(p) == IF loc[p].live THEN cache[loc[p].im][1].arr[loc[p].i] ELSE loc[p].arr[loc[p].i]

\* the score Search (calculateScore) or SearchContent (calculateContentScore)
\* gives the element read
ScoreOf(p) ==
    IF loc[p].op = "content"
    THEN CalculateContentScore(disk, Elem(p), NormalizeTokens(loc[p].arg.query))
    ELSE CalculateScore(Elem(p), NormalizeTokens(loc[p].arg.query))

\* what one loop round of ListAtoms / Search appends to its results
Picked(p) ==
    IF loc[p].op = "list"
    THEN IF ListFilter(Elem(p), loc[p].arg.f) THEN <<ListResult(Elem(p))>> ELSE <<>>
    ELSE IF SearchFilter(Elem(p), loc[p].arg.f) /\ ScoreOf(p) > 0
         THEN <<[entry |-> Elem(p), score |-> ScoreOf(p)]>>
         ELSE <<>>

\* one round of "for _, entry := range index.Atoms" in ListAtoms or Search;
\* ListAtoms leaves the loop once len(results) >= limit after an append
ScanStep(p) ==
    /\ pc[p] = "scan"
    /\ LET res == loc[p].res \o Picked(p)
           stop == \/ loc[p].i >= loc[p].hlen
                   \/ loc[p].op = "list" /\ Picked(p) # <<>> /\ Len(res) >= loc[p].arg.limit
       IN /\ loc' = [loc EXCEPT ![p].res = res, ![p].i = @ + 1]
          /\ pc' = [pc EXCEPT ![p] = IF stop THEN "finish" ELSE "scan"]
    /\ UNCHANGED <<disk, cache, mu, now, calls, crashes, saved, init0>>

\* after the loop: ListAtoms returns its results; Search sorts, truncates and
\* formats (loading each atom for its summary)
ScanFinish(p) ==
    /\ pc[p] = "finish"
    /\ pc' = [pc EXCEPT ![p] = "done"]
    /\ loc' = [loc EXCEPT ![p] =
                  Returned(loc[p],
                           [kind |-> "ok",
                            val |-> IF loc[p].op = "list" THEN loc[p].res
                                    ELSE LET top == Truncate(SortByScore(loc[p].res), loc[p].arg.limit)
                                         IN [k \in 1..Len(top) |-> FormatResult(disk, top[k])]])]
    /\ UNCHANGED <<disk, cache, mu, now, calls, crashes, saved, init0>>

\* ------------------------------------------------------------ direct IndexManager callers
\* a caller of IndexManager.AddOrUpdate on the shared instance
DirectAddBegin(p, entry) ==
    /\ Enter(p)
    /\ pc' = [pc EXCEPT ![p] = "addidx"]
    /\ loc' = [loc EXCEPT ![p] = [NoLoc EXCEPT !.op = "addOrUpdate", !.arg = entry, !.im = "shared",
                                               !.entry = Some(entry), !.today = now]]

\* a caller of IndexManager.Remove on the shared instance
DirectRemoveBegin(p, id) ==
    /\ Enter(p)
    /\ pc' = [pc EXCEPT ![p] = "rmidx"]
    /\ loc' = [loc EXCEPT ![p] = [NoLoc EXCEPT !.op = "remove", !.arg = id, !.im = "shared", !.today = now]]

\* ------------------------------------------------------------ environment
\* the clock advances
Tick ==
    /\ now < MaxDay
    /\ now' = now + 1
    /\ UNCHANGED <<disk, cache, mu, pc, loc, calls, crashes, saved, init0>>

\* the process dies and is started again: the files stay, memory is lost
Crash ==
    /\ crashes < MaxCrashes
    /\ crashes' = crashes + 1
    /\ cache' = [shared |-> None, tools |-> None]
    /\ mu' = [shared |-> 0, tools |-> 0]
    /\ pc' = PerProc([p \in Procs |-> "idle"])
    /\ loc' = PerProc([p \in Procs |-> NoLoc])
    /\ UNCHANGED <<disk, now, calls, saved, init0>>

\* ------------------------------------------------------------ specifications
\* a storage directory left by earlier runs: the first n generated IDs, each with
\* its atom file and its entry in index.yaml
InitAtom(k) == CreateAtom(IF k % 2 = 1 THEN InputA ELSE InputB, FormatID(k), 0)

RECURSIVE InitEntries(_)
InitEntries(n) ==
    IF n = 0 THEN <<>> ELSE Append(InitEntries(n - 1), NewIndexEntryFromAtom(InitAtom(n)))

Store(n) ==
    IF n = 0 THEN EmptyDisk
    ELSE [dir |-> TRUE,
          yaml |-> [id \in {FormatID(k) : k \in 1..n} |->
                       Good(MarshalAtom(InitAtom(CHOOSE k \in 1..n : FormatID(k) = id)))],
          json |-> <<>>,
          idxYAML |-> Some(IndexFileOf(InitEntries(n))),
          idxJSON |-> None, noread |-> {}, noremove |-> {}, nowrite |-> {}]

\* a freshly started process over the storage directory d
InitWith(d) ==
    /\ disk = d
    /\ cache = [shared |-> None, tools |-> None]
    /\ mu = [shared |-> 0, tools |-> 0]
    /\ pc = PerProc([p \in Procs |-> "idle"])
    /\ loc = PerProc([p \in Procs |-> NoLoc])
    /\ now = 1
    /\ calls = 0
    /\ crashes = 0
    /\ saved = EntriesOf(d)
    /\ init0 = d

\* the handlers a caller can invoke
Begin(p) ==
    \/ \E input \in UpsertInputs : UpsertBegin(p, input)
    \/ \E id \in TargetIDs : DeleteAtomBegin(p, id)
    \/ \E id \in TargetIDs : PurgeAtomBegin(p, id)
    \/ RebuildBegin(p)
    \/ \E in \in ListInputs : ListAtomsBegin(p, in)
    \/ \E in \in SearchInputs : SearchBegin(p, in)

\* the steps inside a call
Step(p) ==
    \/ LoadLocked(p)
    \/ GetNextID(p)
    \/ SaveWrite(p)
    \/ AddOrUpdate(p)
    \/ DeleteStat(p)
    \/ DeleteRemove(p)
    \/ Remove(p)
    \/ RebuildLoad(p)
    \/ RebuildSave(p)
    \/ GetIndex(p)
    \/ ScanStep(p)
    \/ ScanFinish(p)

\* Concurrent callers: every process makes one call, in any interleaving, over a
\* storage directory that holds up to MaxInitAtoms atoms.
Init == \E n \in 0..MaxInitAtoms : InitWith(Store(n))

Next ==
    \/ \E p \in Procs : pc[p] = "idle" /\ Begin(p)
    \/ \E p \in Procs : Step(p)
    \/ Tick

Spec == Init /\ [][Next]_vars

\* One caller at a time, from an empty storage directory, with crashes: a call
\* starts only when no other call is running.
InitSeq == InitWith(EmptyDisk)

NextSeq ==
    \/ (\A q \in Procs : pc[q] \in {"idle", "done"}) /\ Begin(1)
    \/ Step(1)
    \/ Tick
    \/ Crash

SpecSeq == InitSeq /\ [][NextSeq]_vars

\* ------------------------------------------------------------ observations
\* no call is running
Quiescent == \A p \in Procs : pc[p] \in {"idle", "done"}

\* the IDs that have an atom file in the repository
RepoIDs(d) == (DOMAIN d.yaml) \cup (DOMAIN d.json)

\* the entry list of the index file in d (the empty list when there is no file)
PersistedAtoms(d) == IndexAtoms(LoadIndexFile(d, 0).ix)

\* the IDs of a list of entries or results
IDsOf(s) == {s[k].id : k \in 1..Len(s)}

\* no ID occurs twice in a list of entries or results
DistinctIDs(s) == \A i, j \in 1..Len(s) : s[i].id = s[j].id => i = j

\* every entry of the list is the projection of the atom stored under its ID
EntriesMatch(atoms, d) ==
    \A k \in 1..Len(atoms) :
        LET l == StorageLoad(d, atoms[k].id)
        IN ~l.err /\ IsSome(l.atom) /\ atoms[k] = NewIndexEntryFromAtom(l.atom[1])

\* the list holds exactly one entry per stored atom, each the atom's projection
Projects(atoms, d) == DistinctIDs(atoms) /\ IDsOf(atoms) = RepoIDs(d) /\ EntriesMatch(atoms, d)

\* the calls that change atoms
LifecycleOps == {"upsert", "deprecate", "purge"}

\* ------------------------------------------------------------ claims C1, C3, C4, C5, C6
\* C1: when the lifecycle operations and the readers run one at a time from an
\* empty store, without a crash, then after every operation the persisted
\* catalog holds exactly one entry per atom ID of the repository, no other
\* entry, and each entry equals the projection of the stored atom.
C1_SequentialCatalogIsProjection ==
    (Quiescent /\ crashes = 0) => Projects(PersistedAtoms(disk), disk)

\* C3: once all concurrent Upsert / Deprecate / Purge calls have returned (no
\* crash), the persisted catalog is the exact projection of the repository:
\* every entry equals the projection of the stored atom, every stored atom has
\* an entry, and no entry is without an atom.
C3_QuiescentCatalogIsProjection ==
    (Quiescent /\ \A p \in Procs : loc[p].op \in LifecycleOps \cup {"none"})
        => Projects(PersistedAtoms(disk), disk)

\* C4: two concurrent Upsert calls without an ID that both returned an atom
\* were given distinct IDs, and both atoms are in the repository and in the
\* persisted catalog.
C4_ConcurrentCreatesGetDistinctIDs ==
    \A p, q \in Procs :
        (/\ p # q
         /\ pc[p] = "done" /\ loc[p].op = "upsert" /\ ~HasID(loc[p].arg) /\ loc[p].ret.kind = "ok"
         /\ pc[q] = "done" /\ loc[q].op = "upsert" /\ ~HasID(loc[q].arg) /\ loc[q].ret.kind = "ok")
        => /\ loc[p].ret.atom[1].id # loc[q].ret.atom[1].id
           /\ {loc[p].ret.atom[1].id, loc[q].ret.atom[1].id} \subseteq RepoIDs(disk)
           /\ {loc[p].ret.atom[1].id, loc[q].ret.atom[1].id} \subseteq IDsOf(PersistedAtoms(disk))

\* C5: all operations act on one catalog: with one call at a time, a ListAtoms
\* call without filter (and with a limit above the catalog's size) returns
\* exactly the entries of the persisted catalog, and a Search without query and
\* filter returns exactly its IDs, so that no mutation completed by an earlier
\* call is missing from what a later call reads.
C5_ReadersObserveCompletedMutations ==
    /\ (pc[1] = "done" /\ loc[1].op = "list" /\ loc[1].arg = [f |-> NoFilter, limit |-> 10]
        /\ loc[1].ret.kind = "ok")
           => loc[1].ret.val = [k \in 1..Len(PersistedAtoms(disk)) |-> ListResult(PersistedAtoms(disk)[k])]
    /\ (pc[1] = "done" /\ loc[1].op = "search"
        /\ loc[1].arg = [query |-> <<>>, f |-> NoFilter, limit |-> 10]
        /\ loc[1].ret.kind = "ok")
           => IDsOf(loc[1].ret.val) = IDsOf(PersistedAtoms(disk))

\* C6: a ListAtoms or Search call that ran concurrently with AddOrUpdate /
\* Remove never returns the same ID twice and, when it has neither filter nor
\* effective limit, never omits an ID that was in the index during its whole
\* call.
C6_ReaderSeesOneSnapshot ==
    \A p \in Procs :
        (pc[p] = "done" /\ loc[p].op \in {"list", "search"} /\ loc[p].ret.kind = "ok")
        => /\ DistinctIDs(loc[p].ret.val)
           /\ (loc[p].arg.f = NoFilter /\ loc[p].arg.limit = 10)
                 => loc[p].keep \subseteq IDsOf(loc[p].ret.val)

\* ------------------------------------------------------------ serial reference
\* The same calls run one after the other, each to completion, on a process
\* image st = [disk, cache]; index timestamps are not compared and are set to 0.
SerIndex(st, im) ==
    IF IsSome(st.cache[im]) THEN st.cache[im][1] ELSE LoadIndexFile(st.disk, 0).ix

\* loadLocked fails: nothing cached and the index file does not decode
SerLoadErr(st, im) == ~IsSome(st.cache[im]) /\ LoadIndexFile(st.disk, 0).err

\* IndexManager.AddOrUpdate, run alone
SerAddOrUpdate(st, im, entry) ==
    IF SerLoadErr(st, im) THEN st
    ELSE LET ix == IndexAddOrUpdate(SerIndex(st, im), entry, 0)
         IN [disk |-> SaveIndexFile(st.disk, ix), cache |-> [st.cache EXCEPT ![im] = Some(ix)]]

\* IndexManager.Remove, run alone
SerRemove(st, im, id) ==
    IF SerLoadErr(st, im) THEN st
    ELSE LET r == IndexRemove(SerIndex(st, im), id, 0)
         IN [disk |-> IF r.ok THEN SaveIndexFile(st.disk, r.ix) ELSE st.disk,
             cache |-> [st.cache EXCEPT ![im] = Some(r.ix)]]

\* AtomStorage.Save followed by IndexManager.AddOrUpdate of the atom's entry
SerSaveAndIndex(st, im, atom) ==
    SerAddOrUpdate([st EXCEPT !.disk = SaveRemoveLegacy(SaveWriteFile(@, atom), atom.id)],
                   im, NewIndexEntryFromAtom(atom))

\* UpsertHandler.Upsert, run alone
SerUpsert(st, input, today) ==
    IF ~ValidInput(input) THEN st
    ELSE IF HasID(input)
    THEN LET ld == StorageLoad(st.disk, input.id[1])
         IN IF ld.err THEN st
            ELSE SerSaveAndIndex(st, "shared",
                                 IF IsSome(ld.atom) THEN UpdateAtom(ld.atom[1], input, today)
                                 ELSE CreateAtom(input, input.id[1], today))
    ELSE IF SerLoadErr(st, "shared") THEN st
    ELSE LET ix == SerIndex(st, "shared")
         IN SerSaveAndIndex([st EXCEPT !.cache["shared"] = Some(ix)], "shared",
                            CreateAtom(input, IndexGetNextID(ix), today))

\* AtomTools.DeleteAtom, run alone
SerDeprecate(st, id, today) ==
    LET ld == StorageLoad(st.disk, id)
    IN IF ld.err \/ ~IsSome(ld.atom) THEN st
       ELSE SerSaveAndIndex(st, "tools", DeprecatedAtom(ld.atom[1], today))

\* AtomTools.PurgeAtom, run alone
SerPurge(st, id) ==
    IF ~StorageExists(st.disk, id) THEN st
    ELSE LET r == StorageDelete(st.disk, id, id \in DOMAIN st.disk.yaml, id \in DOMAIN st.disk.json)
         IN IF r.err THEN [st EXCEPT !.disk = r.d]
            ELSE SerRemove([st EXCEPT !.disk = r.d], "tools", id)

\* the call recorded in the locals l, run alone
SerCall(st, l) ==
    CASE l.op = "upsert" -> SerUpsert(st, l.arg, l.today)
      [] l.op = "deprecate" -> SerDeprecate(st, l.arg, l.today)
      [] l.op = "purge" -> SerPurge(st, l.arg)
      [] l.op = "addOrUpdate" -> SerAddOrUpdate(st, "shared", l.arg)
      [] l.op = "remove" -> SerRemove(st, "shared", l.arg)
      [] OTHER -> st

RECURSIVE SerRun(_, _, _)
\* the calls of the processes in the given order, from position k on
SerRun(st, order, k) ==
    IF k > Len(order) THEN st ELSE SerRun(SerCall(st, loc[order[k]]), order, k + 1)

\* the orders in which the processes' calls can be serialized
Orders == {o \in [1..NumProcs -> Procs] : \A i, j \in 1..NumProcs : o[i] = o[j] => i = j}

\* the image after the serial run in the given order, from the initial directory
SerFinal(o) == SerRun([disk |-> init0, cache |-> [shared |-> None, tools |-> None]], o, 1)

\* what is compared of an image: the atom files, the persisted entry list and
\* the cached entry lists
View(d, c) ==
    [yaml |-> d.yaml, json |-> d.json,
     hasFile |-> IsSome(d.idxYAML) \/ IsSome(d.idxJSON),
     persisted |-> PersistedAtoms(d),
     cached |-> [im \in IMs |-> IF IsSome(c[im]) THEN Some(IndexAtoms(c[im][1])) ELSE None]]

\* the repository and persisted catalog part of a view
Stored(v) == [yaml |-> v.yaml, json |-> v.json, persisted |-> v.persisted]

\* ------------------------------------------------------------ claim C2
\* C2: no lost updates: once all concurrent Upsert / Deprecate / Purge calls
\* have returned, the repository and the persisted catalog equal those produced
\* by running the same calls in some serial order.
C2_LifecycleCallsSerializable ==
    (Quiescent /\ \A p \in Procs : loc[p].op \in LifecycleOps \cup {"none"})
        => \E o \in Orders : Stored(View(disk, cache)) = Stored(View(SerFinal(o).disk, SerFinal(o).cache))

\* ------------------------------------------------------------ callers of one IndexManager
\* Concurrent callers of AddOrUpdate and Remove on the shared IndexManager, one
\* call per process, over a storage directory that holds up to MaxInitAtoms
\* atoms.
DirectEntries ==
    {NewIndexEntryFromAtom(CreateAtom(InputB, FormatID(1), 1)),
     NewIndexEntryFromAtom(CreateAtom(InputA, FormatID(3), 1))}

DirectRemoveIDs == {FormatID(1), FormatID(2)}

BeginIM(p) ==
    \/ \E entry \in DirectEntries : DirectAddBegin(p, entry)
    \/ \E id \in DirectRemoveIDs : DirectRemoveBegin(p, id)

StepIM(p) ==
    \/ LoadLocked(p)
    \/ AddOrUpdate(p)
    \/ Remove(p)

NextIM ==
    \/ \E p \in Procs : pc[p] = "idle" /\ BeginIM(p)
    \/ \E p \in Procs : StepIM(p)
    \/ Tick

SpecIM == Init /\ [][NextIM]_vars

\* what is compared of the shared IndexManager: its cached entry list and the
\* index file
SharedView(d, c) ==
    [cached |-> View(d, c).cached["shared"], hasFile |-> View(d, c).hasFile,
     persisted |-> View(d, c).persisted]

\* C7: IndexManager.AddOrUpdate and Remove hold the lock from the lazy load to
\* the save, so once concurrent AddOrUpdate / Remove calls on one IndexManager
\* have returned, its cached entry list and the index file equal the result of
\* applying the same calls in some serial order.
C7_IndexManagerCallsSerializable ==
    Quiescent => \E o \in Orders : SharedView(disk, cache) = SharedView(SerFinal(o).disk, SerFinal(o).cache)

\* C7, the case: over a store of two atoms, one process added a new entry and
\* another removed an existing one, and both effects are in the cached list
\* and in the index file
C7_Witness ==
    /\ pc[1] = "done" /\ loc[1].op = "addOrUpdate" /\ loc[1].arg.id = FormatID(3)
    /\ pc[2] = "done" /\ loc[2].op = "remove" /\ loc[2].ret.removed
    /\ IDsOf(PersistedAtoms(disk)) = {FormatID(3)} \cup (IDsOf(PersistedAtoms(init0)) \ {loc[2].arg})
    /\ IsSome(cache["shared"]) /\ IndexAtoms(cache["shared"][1]) = PersistedAtoms(disk)

\* ------------------------------------------------------------ claims C8, C9
\* the index an IndexManager call on im works on: the cached one, else the one
\* loadLocked reads
CatalogOf(im) == IF IsSome(cache[im]) THEN cache[im][1] ELSE LoadIndexFile(disk, now).ix

RebuiltFrom(atoms, d) ==
    /\ DistinctIDs(atoms)
    /\ IDsOf(atoms) = {id \in RepoIDs(d) : ~StorageLoad(d, id).err}
    /\ EntriesMatch(atoms, d)

\* C9: after RebuildIndex returns, from whatever state (crashes included), the
\* index file and the index of the rebuilding IndexManager hold exactly one
\* entry per atom of the repository that loads, each equal to the atom's
\* projection, and no other entry.
C9_RebuildRepairs ==
    \A p \in Procs :
        (pc[p] = "done" /\ loc[p].op = "rebuild" /\ loc[p].ret.kind = "ok")
        => /\ RebuiltFrom(PersistedAtoms(disk), disk)
           /\ RebuiltFrom(IndexAtoms(CatalogOf("tools")), disk)

\* ------------------------------------------------------------ Upsert and DeleteAtom with crashes
\* One caller at a time makes Upsert and DeleteAtom calls over a storage
\* directory that holds up to MaxInitAtoms atoms; the process can die at any
\* point of a call.
BeginUD(p) ==
    \/ \E input \in UpsertInputs : UpsertBegin(p, input)
    \/ \E id \in TargetIDs : DeleteAtomBegin(p, id)

StepUD(p) ==
    \/ LoadLocked(p)
    \/ GetNextID(p)
    \/ SaveWrite(p)
    \/ AddOrUpdate(p)

NextUD ==
    \/ Quiescent /\ BeginUD(1)
    \/ StepUD(1)
    \/ Tick
    \/ Crash

SpecUD == Init /\ [][NextUD]_vars

\* the entry lists a catalog reader can get: the index file's and the cached ones
CatalogLists ==
    {PersistedAtoms(disk)} \cup {IndexAtoms(cache[im][1]) : im \in {i \in IMs : IsSome(cache[i])}}

\* C10: Upsert and DeleteAtom write the atom before the index entry, so at
\* every point of such a call, and after a crash at any point, every catalog
\* entry has its atom in the repository, holds values that were written to the
\* repository, and is not newer than the stored atom.
C10_EntryNeverAheadOfAtom ==
    \A atoms \in CatalogLists :
        \A k \in 1..Len(atoms) :
            /\ StorageExists(disk, atoms[k].id)
            /\ atoms[k] \in saved
            /\ IsSome(StorageLoad(disk, atoms[k].id).atom)
            /\ atoms[k].updatedAt <= StorageLoad(disk, atoms[k].id).atom[1].updatedAt

\* C10, the case: the process died between the atom write and the index write
\* of an update made on a later day, so that the stored atom is newer than its
\* catalog entry
C10_Witness ==
    /\ crashes > 0
    /\ \E k \in 1..Len(PersistedAtoms(disk)) :
          /\ StorageExists(disk, PersistedAtoms(disk)[k].id)
          /\ PersistedAtoms(disk)[k].updatedAt
                < StorageLoad(disk, PersistedAtoms(disk)[k].id).atom[1].updatedAt


\* ------------------------------------------------------------ validation (C11)
\* Upsert inputs with a value outside one closed enum each; main.go passes the
\* caller's strings through unchanged ("" when the argument is missing)
InvalidInputs ==
    {[t EXCEPT !.id = i] :
        t \in {[InputA EXCEPT !.type = "bogus"], [InputA EXCEPT !.status = "archived"],
               [InputB EXCEPT !.confidence = ""]},
        i \in {None, Some(FormatID(1))}}

BeginV(p) ==
    \/ \E input \in UpsertInputs \cup InvalidInputs : UpsertBegin(p, input)
    \/ \E id \in TargetIDs : DeleteAtomBegin(p, id)

StepV(p) ==
    \/ LoadLocked(p)
    \/ GetNextID(p)
    \/ SaveWrite(p)
    \/ AddOrUpdate(p)

NextV ==
    \/ \E p \in Procs : pc[p] = "idle" /\ BeginV(p)
    \/ \E p \in Procs : StepV(p)
    \/ Tick

SpecV == Init /\ [][NextV]_vars

\* the three enum fields of a stored atom are members of their enums
ValidEnums(atom) ==
    /\ atom.type \in ValidAtomTypes
    /\ atom.status \in ValidAtomStatuses
    /\ atom.confidence \in ValidConfidences

\* every readable atom file holds valid enum values
StoredAtomsValid ==
    \A id \in DOMAIN disk.yaml : disk.yaml[id].ok => ValidEnums(UnmarshalAtom(disk.yaml[id].v))

\* the step in which process p enters Upsert with an input that fails validation
InvalidUpsertStep(p) ==
    /\ calls' = calls + 1
    /\ loc'[p] # loc[p]
    /\ loc'[p].op = "upsert"
    /\ ~ValidEnums(loc'[p].arg)

\* C11: an Upsert whose type, status or confidence is outside its enum returns
\* an error in the step that enters it and leaves the atom files, the cached
\* indexes and the index file as they were; and every atom file written by
\* Upsert or DeleteAtom holds valid enum values in every reachable state.
C11_InvalidUpsertRejected ==
    /\ []StoredAtomsValid
    /\ [][\A p \in Procs :
            InvalidUpsertStep(p) =>
                /\ pc'[p] = "done"
                /\ loc'[p].ret.kind = "error"
                /\ disk' = disk
                /\ cache' = cache]_vars

\* an invalid Upsert of an ID that has an atom has returned its error
C11_Witness ==
    \E p \in Procs :
        /\ pc[p] = "done"
        /\ loc[p].op = "upsert"
        /\ ~ValidEnums(loc[p].arg)
        /\ HasID(loc[p].arg)
        /\ StorageExists(disk, loc[p].arg.id[1])
        /\ loc[p].ret.kind = "error"


\* ------------------------------------------------------------ searching and listing
\* the largest catalog searched
MaxCatalog == 3

\* atoms to search for, as the Upsert inputs that create them
ErrorHandlingPattern ==
    [id |-> None,
     title |-> <<"E", "r", "r", "o", "r", " ", "H", "a", "n", "d", "l", "i", "n", "g", " ", "P", "a", "t", "t", "e", "r", "n">>,
     type |-> "pattern", status |-> "active", confidence |-> "high",
     summary |-> <<"o", "n", " ", "e", "r", "r", "o", "r">>, details |-> <<"d">>,
     pitfalls |-> None, language |-> Some("go"),
     tags |-> Some(<<<<"e", "r", "r", "o", "r", "-", "h", "a", "n", "d", "l", "i", "n", "g">>,
                     <<"a", "s", "y", "n", "c">>>>),
     sources |-> None, links |-> None]

ContentOnly ==
    [InputB EXCEPT !.summary = <<"E", "r", "r", "o", "r">>,
                   !.details = <<"h", "a", "n", "d", "l", "i", "n", "g", " ", "x">>]

TaggedDeprecated ==
    [InputB EXCEPT !.status = "deprecated", !.confidence = "medium",
                   !.title = <<"c">>, !.tags = Some(<<<<"A", "s", "y", "n", "c">>>>)]

SearchPool == {ErrorHandlingPattern, ContentOnly, TaggedDeprecated}

\* the catalogs searched: the pool's atoms created in any order, with repetition
Catalogs == UNION {[1..n -> SearchPool] : n \in 0..MaxCatalog}

RECURSIVE CatalogEntries(_, _)
CatalogEntries(c, n) ==
    IF n = 0 THEN <<>>
    ELSE Append(CatalogEntries(c, n - 1), NewIndexEntryFromAtom(CreateAtom(c[n], FormatID(n), 0)))

\* the storage directory after the inputs of c were created in turn
CatalogStore(c) ==
    IF Len(c) = 0 THEN EmptyDisk
    ELSE [dir |-> TRUE,
          yaml |-> [id \in {FormatID(k) : k \in 1..Len(c)} |->
                       Good(MarshalAtom(CreateAtom(c[CHOOSE k \in 1..Len(c) : FormatID(k) = id], id, 0)))],
          json |-> <<>>,
          idxYAML |-> Some(IndexFileOf(CatalogEntries(c, Len(c)))),
          idxJSON |-> None, noread |-> {}, noremove |-> {}, nowrite |-> {}]

ErrorHandlingQuery == <<<<"e", "r", "r", "o", "r">>, <<"h", "a", "n", "d", "l", "i", "n", "g">>>>

SearchQueries ==
    {<<>>, ErrorHandlingQuery, <<<<"E", "r", "r", "o", "r">>>>, <<<<>>, <<"b">>>>}

SearchFilters ==
    {NoFilter,
     [NoFilter EXCEPT !.types = <<"pattern">>],
     [NoFilter EXCEPT !.status = Some("draft")],
     [NoFilter EXCEPT !.language = Some("go")],
     [NoFilter EXCEPT !.tags = <<<<"a", "s", "y", "n", "c">>>>],
     [NoFilter EXCEPT !.types = <<"decision", "pattern">>,
                      !.tags = <<<<"x">>, <<"A", "S", "Y", "N", "C">>>>]}

SearchLimits == {0, 1, 2, 10}

QueryInputs ==
    {[query |-> q, f |-> f, limit |-> n] : q \in SearchQueries, f \in SearchFilters, n \in SearchLimits}

FilterInputs == {[f |-> f, limit |-> n] : f \in SearchFilters, n \in SearchLimits}

InitSearch == \E c \in Catalogs : InitWith(CatalogStore(c))

BeginSearch(p) ==
    \/ \E in \in QueryInputs : SearchBegin(p, in)
    \/ \E in \in QueryInputs : SearchContentBegin(p, in)
    \/ \E in \in FilterInputs : ListAtomsBegin(p, in)

StepSearch(p) ==
    \/ LoadLocked(p)
    \/ GetIndex(p)
    \/ ScanStep(p)
    \/ ScanFinish(p)

\* one Search, SearchContent or ListAtoms call over a stored catalog
NextSearch ==
    \/ pc[1] = "idle" /\ BeginSearch(1)
    \/ StepSearch(1)

SpecSearch == InitSearch /\ [][NextSearch]_vars


\* a Search or SearchContent call of p has returned its results
SearchDone(p) == pc[p] = "done" /\ loc[p].op \in {"search", "content"} /\ loc[p].ret.kind = "ok"

\* the catalog the calls of SpecSearch read (nothing writes it)
Catalog == PersistedAtoms(disk)

\* the position of the entry of id in the catalog
CatalogPos(id) == CHOOSE k \in 1..Len(Catalog) : Catalog[k].id = id

\* C12: Search and SearchContent return their results in non-increasing score
\* order, and two results with equal score come in the order their entries have
\* in the catalog.
C12_SearchRankingStable ==
    \A p \in Procs :
        SearchDone(p) =>
            \A i, j \in 1..Len(loc[p].ret.val) :
                i < j =>
                    /\ loc[p].ret.val[i].score >= loc[p].ret.val[j].score
                    /\ loc[p].ret.val[i].score = loc[p].ret.val[j].score
                          => CatalogPos(loc[p].ret.val[i].id) < CatalogPos(loc[p].ret.val[j].id)


\* the results of p's Search that stand for the entry of the scoring example:
\* title "Error Handling Pattern", tags error-handling and async, active, high
ExampleResults(p) ==
    {k \in 1..Len(loc[p].ret.val) :
        /\ loc[p].ret.val[k].title = ErrorHandlingPattern.title
        /\ loc[p].ret.val[k].tags = ErrorHandlingPattern.tags[1]
        /\ loc[p].ret.val[k].status = "active"
        /\ loc[p].ret.val[k].confidence = "high"}

\* a match-mode Search for the tokens error, handling has returned
ExampleSearchDone(p) ==
    /\ pc[p] = "done"
    /\ loc[p].op = "search"
    /\ loc[p].ret.kind = "ok"
    /\ loc[p].arg.query = ErrorHandlingQuery

\* C13 as stated: the example entry gets the final score 304 for the tokens
\* error, handling.
C13_ExampleScores304 ==
    \A p \in Procs :
        ExampleSearchDone(p) => \A k \in ExampleResults(p) : loc[p].ret.val[k].score = 304

\* C13, amended: the example entry gets the final score 334 for the tokens
\* error, handling (150 + 30 for error, 100 + 30 for handling, 15 + 9 for
\* active and high).
C13_ExampleScores334 ==
    \A p \in Procs :
        ExampleSearchDone(p) => \A k \in ExampleResults(p) : loc[p].ret.val[k].score = 334

\* the example search has returned the example entry
C13_Witness == \E p \in Procs : ExampleSearchDone(p) /\ ExampleResults(p) # {}


\* the lower-cased summary and details of the atom of id, as content mode reads
\* them
ContentText(id) ==
    ToLower(StorageLoad(disk, id).atom[1].summary \o <<" ">> \o StorageLoad(disk, id).atom[1].details)

\* how many of the tokens occur in the content of the atom of id
ContentHitCount(id, tokens) ==
    Cardinality({i \in 1..Len(tokens) : Contains(ContentText(id), tokens[i])})

\* C14: in content mode with query tokens, a result without title or tag hit
\* has the score 20 + statusWeight*5 + confidenceWeight*3 whatever the number of
\* tokens found in its content, and a result with a title or tag hit has its
\* match-mode score plus 20 for each token found in its content.
C14_ContentModeScore ==
    \A p \in Procs :
        (pc[p] = "done" /\ loc[p].op = "content" /\ loc[p].ret.kind = "ok"
         /\ NormalizeTokens(loc[p].arg.query) # <<>>)
        => \A k \in 1..Len(loc[p].ret.val) :
              LET r == loc[p].ret.val[k]
                  tokens == NormalizeTokens(loc[p].arg.query)
                  matched == CalculateScore(Catalog[CatalogPos(r.id)], tokens)
              IN IF matched = 0
                 THEN r.score = 20 + StatusPriority(r.status) * 5 + ConfidencePriority(r.confidence) * 3
                 ELSE r.score = matched + 20 * ContentHitCount(r.id, tokens)


\* the points one lower-cased token gives an entry, as the scoring rule states
\* them
RuleTokenPoints(entry, token) ==
    (IF Contains(ToLower(entry.title), token) THEN 100 ELSE 0)
    + (IF HasPrefix(ToLower(entry.title), token) THEN 50 ELSE 0)
    + (IF \E t \in Range(entry.tags) : Contains(ToLower(t), token) THEN 30 ELSE 0)

RECURSIVE RuleSum(_, _, _)
\* the sum of the points of the first n tokens
RuleSum(entry, tokens, n) ==
    IF n = 0 THEN 0 ELSE RuleSum(entry, tokens, n - 1) + RuleTokenPoints(entry, tokens[n])

\* statusWeight*5 + confidenceWeight*3
RuleTrust(entry) ==
    5 * (CASE entry.status = "active" -> 3 [] entry.status = "draft" -> 2
           [] entry.status = "deprecated" -> 1)
    + 3 * (CASE entry.confidence = "high" -> 3 [] entry.confidence = "medium" -> 2
             [] entry.confidence = "low" -> 1)

\* the score the rule gives an entry: 0 means excluded
RuleScore(entry, tokens) ==
    IF tokens = <<>> THEN 10 + RuleTrust(entry)
    ELSE IF RuleSum(entry, tokens, Len(tokens)) = 0 THEN 0
    ELSE RuleSum(entry, tokens, Len(tokens)) + RuleTrust(entry)

\* C15: every result of Search carries the score of the rule (per token 100 for
\* a title hit, 50 for a title prefix, 30 once for a tag hit, then
\* statusWeight*5 + confidenceWeight*3; 10 plus the weights for an empty token
\* list), an entry whose token sum is 0 is not returned, and when the limit does
\* not cut the list every filtered entry with a positive score is returned.
C15_MatchModeScore ==
    \A p \in Procs :
        (pc[p] = "done" /\ loc[p].op = "search" /\ loc[p].ret.kind = "ok")
        => LET tokens == NormalizeTokens(loc[p].arg.query)
               val == loc[p].ret.val
           IN /\ \A k \in 1..Len(val) :
                    /\ val[k].score = RuleScore(Catalog[CatalogPos(val[k].id)], tokens)
                    /\ val[k].score > 0
              /\ loc[p].arg.limit >= Len(Catalog)
                    => IDsOf(val) = {Catalog[k].id : k \in
                                        {i \in 1..Len(Catalog) :
                                            /\ SearchFilter(Catalog[i], loc[p].arg.f)
                                            /\ RuleScore(Catalog[i], tokens) > 0}}

\* a match-mode Search has returned one entry and left out another that passes
\* the filter but matches no token
C15_Witness ==
    \E p \in Procs :
        /\ pc[p] = "done" /\ loc[p].op = "search" /\ loc[p].ret.kind = "ok"
        /\ NormalizeTokens(loc[p].arg.query) # <<>>
        /\ loc[p].ret.val # <<>>
        /\ \E i \in 1..Len(Catalog) :
              /\ SearchFilter(Catalog[i], loc[p].arg.f)
              /\ Catalog[i].id \notin IDsOf(loc[p].ret.val)
              /\ loc[p].arg.limit >= Len(Catalog)


\* the filter predicate as the search contract states it: every provided filter
\* must pass, an omitted one excludes nothing
PassesFilters(entry, f) ==
    /\ f.types = <<>> \/ \E k \in 1..Len(f.types) : f.types[k] = entry.type
    /\ f.status = None \/ f.status = Some(entry.status)
    /\ f.language = None \/ (entry.language # None /\ entry.language = f.language)
    /\ f.tags = <<>> \/ \E t \in Range(f.tags), u \in Range(entry.tags) : ToLower(t) = ToLower(u)

RECURSIVE Passing(_, _)
\* the entries of a list that pass the filters, in the order of the list
Passing(entries, f) ==
    IF entries = <<>> THEN <<>>
    ELSE (IF PassesFilters(Head(entries), f) THEN <<Head(entries)>> ELSE <<>>)
         \o Passing(Tail(entries), f)

\* the IDs of a list of entries or results, in order
IDSeq(s) == [k \in 1..Len(s) |-> s[k].id]

\* the first n elements of s, all of s when it is shorter
FirstN(s, n) == SubSeq(s, 1, IF n < Len(s) THEN n ELSE Len(s))

\* C16: ListAtoms returns the first min(limit, n) of the n catalog entries that
\* pass the filter predicate of Search (tags compared ignoring case), in catalog
\* order, for every limit >= 0.
C16_ListIsFilterThenTruncate ==
    \A p \in Procs :
        (pc[p] = "done" /\ loc[p].op = "list" /\ loc[p].ret.kind = "ok")
        => IDSeq(loc[p].ret.val) = IDSeq(FirstN(Passing(Catalog, loc[p].arg.f), loc[p].arg.limit))


\* the score that decides whether p's Search or SearchContent keeps an entry
KeepScore(p, entry) ==
    IF loc[p].op = "content"
    THEN CalculateContentScore(disk, entry, NormalizeTokens(loc[p].arg.query))
    ELSE CalculateScore(entry, NormalizeTokens(loc[p].arg.query))

\* C17: every result of Search and SearchContent is an entry that passes every
\* provided filter (type in the allowed set, status equal, language set and
\* equal, one requested tag equal to one of its tags ignoring case); an omitted
\* filter excludes nothing: when the limit does not cut the list, every entry
\* that passes the provided filters and has a positive score is returned.
C17_OnlyFilteredEntriesScored ==
    \A p \in Procs :
        SearchDone(p) =>
            /\ \A k \in 1..Len(loc[p].ret.val) :
                  PassesFilters(Catalog[CatalogPos(loc[p].ret.val[k].id)], loc[p].arg.f)
            /\ loc[p].arg.limit >= Len(Catalog)
                  => \A i \in 1..Len(Catalog) :
                        (PassesFilters(Catalog[i], loc[p].arg.f) /\ KeepScore(p, Catalog[i]) > 0)
                            => Catalog[i].id \in IDsOf(loc[p].ret.val)

\* a Search with a type and a tag filter has returned one entry and left out
\* another
C17_Witness ==
    \E p \in Procs :
        /\ SearchDone(p)
        /\ loc[p].arg.f.types # <<>>
        /\ loc[p].arg.f.tags # <<>>
        /\ loc[p].arg.limit >= Len(Catalog)
        /\ loc[p].ret.val # <<>>
        /\ \E i \in 1..Len(Catalog) : ~PassesFilters(Catalog[i], loc[p].arg.f)


RECURSIVE Scored(_, _)
\* the entries of a list that p's Search keeps, each with its score, in the order
\* of the list
Scored(p, entries) ==
    IF entries = <<>> THEN <<>>
    ELSE (IF SearchFilter(Head(entries), loc[p].arg.f) /\ KeepScore(p, Head(entries)) > 0
          THEN <<[id |-> Head(entries).id, score |-> KeepScore(p, Head(entries))]>>
          ELSE <<>>)
         \o Scored(p, Tail(entries))

\* the number of catalog entries with a positive score for p's Search
PositiveCount(p) ==
    Cardinality({i \in 1..Len(Catalog) :
                    SearchFilter(Catalog[i], loc[p].arg.f) /\ KeepScore(p, Catalog[i]) > 0})

\* C18: Search and SearchContent return exactly min(limit, m) results, m being
\* the number of entries with a positive score, and these are the first
\* min(limit, m) elements of the full ranked list, for every limit >= 0.
C18_TruncateAfterRanking ==
    \A p \in Procs :
        SearchDone(p) =>
            /\ Len(loc[p].ret.val) =
                  (IF loc[p].arg.limit < PositiveCount(p) THEN loc[p].arg.limit ELSE PositiveCount(p))
            /\ IDSeq(loc[p].ret.val) = IDSeq(FirstN(SortByScore(Scored(p, Catalog)), loc[p].arg.limit))

\* a Search whose limit cut the ranked list, the best entry not being the first
\* of the catalog
C18_Witness ==
    \E p \in Procs :
        /\ SearchDone(p)
        /\ loc[p].arg.limit > 0
        /\ loc[p].arg.limit < PositiveCount(p)
        /\ Len(loc[p].ret.val) = loc[p].arg.limit
        /\ loc[p].ret.val[1].id # Scored(p, Catalog)[1].id


\* ------------------------------------------------------------ next ID (C19)
\* IDs a caller supplies to Upsert: generated ones, one without padding, and two
\* that are not "K-" followed by digits only
UnpaddedID == <<"K", "-", "1", "2">>

TrailingTextID == <<"K", "-", "7", "x">>

NextIDPool == {FormatID(1), FormatID(3), UnpaddedID, TrailingTextID, CustomID}

NextIDInputs == {[InputB EXCEPT !.id = i] : i \in {None} \cup {Some(x) : x \in NextIDPool}}

StepID(p) ==
    \/ LoadLocked(p)
    \/ GetNextID(p)
    \/ SaveWrite(p)
    \/ AddOrUpdate(p)

\* Upserts one at a time, with and without a supplied ID
NextID ==
    \/ Quiescent /\ \E input \in NextIDInputs : UpsertBegin(1, input)
    \/ StepID(1)

SpecID == Init /\ [][NextID]_vars

\* the ID is K- followed by one or more digits and nothing else
MatchesKDigits(id) ==
    /\ Len(id) >= 3
    /\ id[1] = "K"
    /\ id[2] = "-"
    /\ \A k \in 3..Len(id) : IsDigit(id[k])

RECURSIVE SuffixValue(_, _)
\* the number written by the first n characters after "K-"
SuffixValue(id, n) ==
    IF n = 0 THEN 0 ELSE SuffixValue(id, n - 1) * 10 + DigitVal(id[2 + n])

\* the numeric suffixes of the entries whose ID matches K-<digits>
ConformingSuffixes(entries) ==
    {SuffixValue(entries[k].id, Len(entries[k].id) - 2) :
        k \in {i \in 1..Len(entries) : MatchesKDigits(entries[i].id)}}

\* the next ID as the contract states it
ContractNextID(entries) ==
    IF entries = <<>> THEN <<"K", "-", "0", "0", "0", "0", "0", "1">>
    ELSE LET nums == ConformingSuffixes(entries) \cup {0}
         IN FormatID(1 + CHOOSE m \in nums : \A x \in nums : x <= m)

\* p's Upsert without an ID has just received its ID from GetNextID
GotNextID(p) == pc[p] = WriteOrder[1] /\ loc[p].op = "upsert" /\ ~HasID(loc[p].arg)

\* C19: the ID GetNextID returns is K-000001 on an empty catalog, otherwise K-
\* and 1 + the largest suffix of the entries whose ID is K-<digits>, padded to 6
\* digits, entries with any other ID being ignored; and it is the ID of no
\* entry of the catalog.
C19_NextIDIsMaxConformingPlusOne ==
    \A p \in Procs :
        GotNextID(p) =>
            /\ loc[p].atom[1].id = ContractNextID(IndexAtoms(cache["shared"][1]))
            /\ loc[p].atom[1].id \notin IDsOf(IndexAtoms(cache["shared"][1]))


\* ------------------------------------------------------------ update (C20)
\* the step in which p's Upsert writes the atom file of an ID that has one (no
\* call was cut short by a process stop so far)
UpdateWriteStep(p) ==
    /\ crashes' = 0
    /\ pc[p] = "save"
    /\ pc'[p] # "save"
    /\ loc[p].op = "upsert"
    /\ HasID(loc[p].arg)
    /\ IsSome(StorageLoad(disk, loc[p].arg.id[1]).atom)

\* the step in which p's Upsert replaces the catalog entry of an ID that has one
UpdateEntryStep(p) ==
    /\ crashes' = 0
    /\ pc[p] = "addidx"
    /\ pc'[p] = "done"
    /\ loc[p].op = "upsert"
    /\ HasID(loc[p].arg)
    /\ loc[p].arg.id[1] \in IDsOf(PersistedAtoms(disk))
    /\ loc'[p].ret.kind = "ok"

\* the entry of id in a list of entries
EntryOf(entries, id) == entries[CHOOSE k \in 1..Len(entries) : entries[k].id = id]

\* C20: an Upsert update leaves every optional field other than summary that
\* the caller omits (details, pitfalls, tags, sources, links, language) at its
\* stored value, in the atom and, for language and tags, in the catalog entry.
C20_OmittedFieldsKeepStoredValue ==
    [][\A p \in Procs :
        /\ UpdateWriteStep(p) =>
              LET id == loc[p].arg.id[1]
                  old == StorageLoad(disk, id).atom[1]
                  new == StorageLoad(disk', id).atom[1]
              IN /\ loc[p].arg.details = <<>> => new.details = old.details
                 /\ loc[p].arg.pitfalls = None => new.pitfalls = old.pitfalls
                 /\ loc[p].arg.tags = None => new.tags = old.tags
                 /\ loc[p].arg.sources = None => new.sources = old.sources
                 /\ loc[p].arg.links = None => new.links = old.links
                 /\ loc[p].arg.language = None => new.language = old.language
        /\ UpdateEntryStep(p) =>
              LET id == loc[p].arg.id[1]
                  old == EntryOf(PersistedAtoms(disk), id)
                  new == EntryOf(PersistedAtoms(disk'), id)
              IN /\ loc[p].arg.tags = None => new.tags = old.tags
                 /\ loc[p].arg.language = None => new.language = old.language]_vars


\* ------------------------------------------------------------ update, field by field (C21)
\* C21: on an Upsert update each of pitfalls, tags, sources, links and details
\* that the caller omits (a nil list, an empty details text) keeps the stored
\* value, each one the caller supplies replaces it, and summary becomes the
\* caller's value even when that is empty.
C21_UpdateFieldByField ==
    [][\A p \in Procs :
        UpdateWriteStep(p) =>
            LET id == loc[p].arg.id[1]
                in == loc[p].arg
                old == StorageLoad(disk, id).atom[1]
                new == StorageLoad(disk', id).atom[1]
            IN /\ new.summary = in.summary
               /\ new.details = (IF in.details = <<>> THEN old.details ELSE in.details)
               /\ new.pitfalls = (IF in.pitfalls = None THEN old.pitfalls ELSE in.pitfalls[1])
               /\ new.tags = (IF in.tags = None THEN old.tags ELSE in.tags[1])
               /\ new.sources = (IF in.sources = None THEN old.sources ELSE in.sources[1])
               /\ new.links = (IF in.links = None THEN old.links ELSE in.links[1])]_vars

\* C21, the case: an update that omitted every optional field and gave an empty
\* summary has returned; the atom kept the stored tags, pitfalls and details and
\* its summary is empty
C21_Witness ==
    \E p \in Procs :
        /\ crashes = 0
        /\ pc[p] = "done"
        /\ loc[p].op = "upsert"
        /\ loc[p].ret.kind = "ok"
        /\ loc[p].arg = [InputB EXCEPT !.id = Some(FormatID(1))]
        /\ Len(loc[p].ret.atom[1].notes) >= 2
        /\ loc[p].ret.atom[1].summary = <<>>
        /\ loc[p].ret.atom[1].tags = InputA.tags[1]
        /\ loc[p].ret.atom[1].pitfalls = InputA.pitfalls[1]
        /\ loc[p].ret.atom[1].details = InputA.details
        /\ StorageLoad(disk, FormatID(1)).atom = loc[p].ret.atom


\* ------------------------------------------------------------ update notes, id, createdAt (C22)
\* the "Updated" note an update made on the given day appends
UpdatedNote(day) == [date |-> day, note |-> "Updated"]

\* a note list as create and updates build it: "Initial creation", then only
\* "Updated" notes
NotesWellFormed(notes) ==
    /\ Len(notes) >= 1
    /\ notes[1].note = "Initial creation"
    /\ \A k \in 2..Len(notes) : notes[k].note = "Updated"

\* the step in which p's call of the given operation writes the atom file of id
WritesAtom(p, op, id) ==
    /\ pc[p] = "save"
    /\ pc'[p] # "save"
    /\ crashes' = crashes
    /\ loc[p].op = op
    /\ loc[p].atom[1].id = id

\* C22: as long as no call was cut short by a process stop, the stored atom of
\* an ID keeps its id and createdAt in every step, its note list starts with
\* "Initial creation", every Upsert update of the ID appends exactly one
\* "Updated" note to the stored list, a Deprecate leaves the list as it is, and
\* no step removes, reorders or rewrites an earlier note: after n updates and
\* any number of Deprecate calls the list is "Initial creation" followed by n
\* "Updated" notes.
C22_NotesAppendOnly ==
    /\ [](\A id \in RepoIDs(disk) : NotesWellFormed(StorageLoad(disk, id).atom[1].notes))
    /\ [][crashes' = 0 => \A id \in RepoIDs(disk) :
            LET old == StorageLoad(disk, id).atom[1]
                new == StorageLoad(disk', id).atom[1]
            IN /\ new.id = old.id
               /\ new.createdAt = old.createdAt
               /\ IF \E p \in Procs : WritesAtom(p, "upsert", id)
                  THEN \E p \in Procs : new.notes = Append(old.notes, UpdatedNote(loc[p].today))
                  ELSE new.notes = old.notes]_vars

\* C22, the case: an atom of the initial store was updated twice and then
\* deprecated
C22_Witness ==
    \E id \in RepoIDs(disk) :
        LET atom == StorageLoad(disk, id).atom[1]
        IN /\ Len(atom.notes) = 3
           /\ atom.notes[2].note = "Updated"
           /\ atom.notes[3].note = "Updated"
           /\ atom.status = AtomStatusDeprecated
           /\ atom.createdAt = 0
           /\ \E p \in Procs : pc[p] = "done" /\ loc[p].op = "deprecate" /\ loc[p].arg = id
           /\ crashes = 0


\* ------------------------------------------------------------ create or update (C23)
\* C23: the atom an Upsert writes is an update of the stored atom exactly when
\* the caller gave an ID that has an atom in the repository; otherwise it is a
\* new atom under the given ID, or under the Catalog's GetNextID value when no
\* ID was given, with the single note "Initial creation", createdAt = updatedAt
\* and empty lists for the pitfalls, tags, sources and links left out.
C23_UpdateIffSuppliedAndStored ==
    [][\A p \in Procs : \A id \in {loc[q].atom[1].id : q \in {r \in Procs : IsSome(loc[r].atom)}} :
        WritesAtom(p, "upsert", id) =>
            LET in == loc[p].arg
                supplied == IsSome(in.id) /\ in.id[1] # <<>>
                new == StorageLoad(disk', id).atom[1]
            IN IF supplied /\ IsSome(StorageLoad(disk, in.id[1]).atom)
               THEN LET old == StorageLoad(disk, in.id[1]).atom[1]
                    IN /\ id = in.id[1]
                       /\ new.createdAt = old.createdAt
                       /\ new.notes = Append(old.notes, UpdatedNote(loc[p].today))
               ELSE /\ id = (IF supplied THEN in.id[1] ELSE IndexGetNextID(cache["shared"][1]))
                    /\ new.notes = <<[date |-> loc[p].today, note |-> "Initial creation"]>>
                    /\ new.createdAt = loc[p].today
                    /\ new.updatedAt = new.createdAt
                    /\ new.pitfalls = (IF in.pitfalls = None THEN <<>> ELSE in.pitfalls[1])
                    /\ new.tags = (IF in.tags = None THEN <<>> ELSE in.tags[1])
                    /\ new.sources = (IF in.sources = None THEN <<>> ELSE in.sources[1])
                    /\ new.links = (IF in.links = None THEN <<>> ELSE in.links[1])]_vars

\* C23, the case: an Upsert that gave an ID without an atom and left the lists
\* out has created the atom under that ID
C23_Witness ==
    \E p \in Procs :
        /\ pc[p] = "done"
        /\ loc[p].op = "upsert"
        /\ loc[p].ret.kind = "ok"
        /\ loc[p].arg = [InputB EXCEPT !.id = Some(CustomID)]
        /\ loc[p].ret.atom[1].id = CustomID
        /\ Len(loc[p].ret.atom[1].notes) = 1
        /\ loc[p].ret.atom[1].tags = <<>>
        /\ StorageLoad(disk, CustomID).atom = loc[p].ret.atom


\* ------------------------------------------------------------ Deprecate (C24)
\* the step in which p's DeleteAtom replaces the catalog entry
DeprecateEntryStep(p) ==
    /\ crashes' = 0
    /\ pc[p] = "addidx"
    /\ pc'[p] = "done"
    /\ loc[p].op = "deprecate"

\* C24: a Deprecate of a stored atom changes the status and updatedAt of the
\* stored atom and of its Catalog entry and nothing else: the atom's other
\* fields, the other atoms, the length of the Catalog, the entry's position
\* and the other entries stay as they are (so a second Deprecate changes
\* nothing but dates).
C24_DeprecateChangesStatusOnly ==
    [][\A p \in Procs :
        /\ (crashes' = 0 /\ WritesAtom(p, "deprecate", loc[p].arg)) =>
              LET id == loc[p].arg
                  old == StorageLoad(disk, id).atom[1]
                  new == StorageLoad(disk', id).atom[1]
              IN /\ new = [old EXCEPT !.status = "deprecated", !.updatedAt = loc[p].today]
                 /\ \A other \in RepoIDs(disk) \ {id} : StorageLoad(disk', other) = StorageLoad(disk, other)
                 /\ RepoIDs(disk') = RepoIDs(disk)
        /\ DeprecateEntryStep(p) =>
              LET id == loc[p].arg
                  old == PersistedAtoms(disk)
                  new == PersistedAtoms(disk')
              IN /\ Len(new) = Len(old)
                 /\ \A k \in 1..Len(old) :
                       IF old[k].id = id
                       THEN new[k] = [old[k] EXCEPT !.status = "deprecated", !.updatedAt = loc[p].today]
                       ELSE new[k] = old[k]]_vars


\* ------------------------------------------------------------ Deprecate and Purge of a missing ID (C25)
\* the step in which p calls DeleteAtom or PurgeAtom with an ID that has no atom
\* file
MissingTargetStep(p) ==
    /\ pc[p] \in {"idle", "done"}
    /\ calls' = calls + 1
    /\ loc'[p].op \in {"deprecate", "purge"}
    /\ loc'[p].arg \notin RepoIDs(disk)

\* C25: DeleteAtom and PurgeAtom of an ID without an atom in the repository
\* return a result with success = false (no error) and leave the atom files, the
\* cached Catalogs and the index file as they are.
C25_MissingTargetIsFailureResult ==
    [][\A p \in Procs :
        MissingTargetStep(p) =>
            /\ pc'[p] = "done"
            /\ loc'[p].ret = [kind |-> "ok", success |-> FALSE]
            /\ disk' = disk
            /\ cache' = cache]_vars

\* C25, the case: a PurgeAtom of an ID without an atom file has returned its
\* failure result while the Catalog holds entries
C25_Witness ==
    \E p \in Procs :
        /\ pc[p] = "done"
        /\ loc[p].op = "purge"
        /\ loc[p].ret = [kind |-> "ok", success |-> FALSE]
        /\ loc[p].arg \notin RepoIDs(disk)
        /\ Len(PersistedAtoms(disk)) > 0
        /\ IsSome(cache["shared"])


\* ------------------------------------------------------------ storage directories with legacy files
\* Storage directories as an installation that moved from JSON to YAML files
\* can hold them: for each of the first MaxLegacy generated IDs a YAML file, a
\* JSON file, both or neither; a file decodes or not, or cannot be read, and a
\* JSON file may be one that os.Remove fails on.
MaxLegacy == 2

YAMLStates == {"none", "good", "corrupt", "noread"}

JSONStates == {"none", "good", "corrupt", "noread", "noremove"}

IndexStates == {"none", "yaml", "json", "noremove"}

Layouts == [1..MaxLegacy -> YAMLStates \X JSONStates]

\* the atom in the YAML file of the k-th ID, and the older one in its JSON file
YAMLAtom(k) == CreateAtom(IF k % 2 = 1 THEN InputA ELSE InputB, FormatID(k), 1)

JSONAtom(k) == CreateAtom(IF k % 2 = 1 THEN InputB ELSE InputA, FormatID(k), 0)

\* the index of the k-th ID
NumOf(id) == CHOOSE k \in 1..MaxLegacy : FormatID(k) = id

\* the atom files of a layout
LegacyFiles(layout) ==
    LET ys == {FormatID(k) : k \in {j \in 1..MaxLegacy : layout[j][1] # "none"}}
        js == {FormatID(k) : k \in {j \in 1..MaxLegacy : layout[j][2] # "none"}}
    IN [dir |-> ys \cup js # {},
        yaml |-> [id \in ys |-> IF layout[NumOf(id)][1] = "corrupt" THEN Corrupt
                                ELSE Good(MarshalAtom(YAMLAtom(NumOf(id))))],
        json |-> [id \in js |-> IF layout[NumOf(id)][2] = "corrupt" THEN Corrupt
                                ELSE Good(MarshalAtom(JSONAtom(NumOf(id))))],
        idxYAML |-> None, idxJSON |-> None,
        noread |-> {YAMLPath(FormatID(k)) : k \in {j \in 1..MaxLegacy : layout[j][1] = "noread"}}
                   \cup {JSONPath(FormatID(k)) : k \in {j \in 1..MaxLegacy : layout[j][2] = "noread"}},
        noremove |-> {JSONPath(FormatID(k)) : k \in {j \in 1..MaxLegacy : layout[j][2] = "noremove"}},
        nowrite |-> {}]

RECURSIVE LegacyEntries(_, _)
\* the entries of the atoms among the first n IDs that load, in ID order
LegacyEntries(d, n) ==
    IF n = 0 THEN <<>>
    ELSE IF IsSome(StorageLoad(d, FormatID(n)).atom)
    THEN Append(LegacyEntries(d, n - 1), NewIndexEntryFromAtom(StorageLoad(d, FormatID(n)).atom[1]))
    ELSE LegacyEntries(d, n - 1)

\* the storage directory of a layout with its index file
LegacyStore(layout, ixs) ==
    LET d == LegacyFiles(layout)
        file == Some(IndexFileOf(LegacyEntries(d, MaxLegacy)))
    IN [dir |-> d.dir \/ ixs # "none", yaml |-> d.yaml, json |-> d.json,
        idxYAML |-> IF ixs = "yaml" THEN file ELSE None,
        idxJSON |-> IF ixs \in {"json", "noremove"} THEN file ELSE None,
        noread |-> d.noread,
        noremove |-> IF ixs = "noremove" THEN d.noremove \cup {IndexPathJSON} ELSE d.noremove,
        nowrite |-> d.nowrite]

InitLegacy == \E layout \in Layouts : \E ixs \in IndexStates : InitWith(LegacyStore(layout, ixs))

\* ------------------------------------------------------------ rebuild after rebuild (C26)
\* One caller runs RebuildIndex again and again over such a directory; nothing
\* else writes.
NextRebuild ==
    \/ Quiescent /\ RebuildBegin(1)
    \/ RebuildLoad(1)
    \/ RebuildSave(1)
    \/ Tick

SpecRebuild == InitLegacy /\ [][NextRebuild]_vars

\* the step in which p's rebuild persists its Catalog, an earlier rebuild having
\* persisted one
SecondRebuildSaves(p) ==
    /\ calls' >= 2
    /\ pc[p] # "done" \/ calls' # calls
    /\ pc'[p] = "done"
    /\ loc'[p].op = "rebuild"

\* C26: a rebuild that follows a rebuild with no write in between persists the
\* Catalog the first one persisted: the same entries in the same order (the
\* Catalog's updatedAt aside).
C26_RebuildTwiceSameCatalog ==
    [][\A p \in Procs :
        SecondRebuildSaves(p) => PersistedAtoms(disk') = PersistedAtoms(disk)]_vars


\* ------------------------------------------------------------ calls over legacy files
\* One caller makes up to MaxLegacyCalls calls (Upsert, DeleteAtom, GetAtom,
\* MigrateAndRebuild) over a storage directory with legacy files.
MaxLegacyCalls == 1

BeginLegacy(p) ==
    \/ BeginUD(p)
    \/ \E id \in TargetIDs : GetAtomBegin(p, id)
    \/ MigrateBegin(p)

StepLegacy(p) ==
    \/ StepUD(p)
    \/ SaveCleanup(p)
    \/ MigrateStep(p)
    \/ MigrateSave(p)
    \/ MigrateRebuild(p)
    \/ RebuildLoad(p)
    \/ RebuildSave(p)

NextLegacy ==
    \/ calls < MaxLegacyCalls /\ Quiescent /\ BeginLegacy(1)
    \/ StepLegacy(1)

SpecLegacy == InitLegacy /\ [][NextLegacy]_vars

\* ------------------------------------------------------------ one encoding after a write (C27)
\* the step in which p's AtomStorage.Save returns
SaveReturns(p) ==
    /\ pc[p] \in {"save", "cleanup"}
    /\ pc'[p] \notin {"save", "cleanup"}

\* the round of p's MigrateAndRebuild in which Save was called and returned
MigrateSaves(p) ==
    /\ pc[p] = "migsave"
    /\ loc'[p].op = "migrate"
    /\ loc'[p].i = loc[p].i + 1

\* the step in which p's IndexManager call has persisted the Catalog
IndexSaveReturns(p) ==
    \/ pc[p] = "addidx" /\ pc'[p] # "addidx"
    \/ pc[p] = "rbscan" /\ pc'[p] = "done"

\* C27: after every successful Save of an atom the YAML file of its ID exists
\* and its JSON file does not, and after every successful save of the Catalog
\* index.yaml exists and index.json does not.
C27_OneEncodingAfterWrite ==
    [][\A p \in Procs :
        /\ SaveReturns(p) =>
              /\ loc[p].atom[1].id \in DOMAIN disk'.yaml
              /\ loc[p].atom[1].id \notin DOMAIN disk'.json
        /\ MigrateSaves(p) =>
              /\ FirstID(loc[p].ids) \in DOMAIN disk'.yaml
              /\ FirstID(loc[p].ids) \notin DOMAIN disk'.json
        /\ IndexSaveReturns(p) =>
              /\ IsSome(disk'.idxYAML)
              /\ disk'.idxJSON = None]_vars

\* C27 as the code has it: the legacy file is removed unless os.Remove fails on
\* it, a failure Save and saveLocked do not report.
C27_OneEncodingUnlessRemoveFails ==
    [][\A p \in Procs :
        /\ SaveReturns(p) =>
              /\ loc[p].atom[1].id \in DOMAIN disk'.yaml
              /\ \/ loc[p].atom[1].id \notin DOMAIN disk'.json
                 \/ JSONPath(loc[p].atom[1].id) \in disk.noremove
        /\ MigrateSaves(p) =>
              /\ FirstID(loc[p].ids) \in DOMAIN disk'.yaml
              /\ \/ FirstID(loc[p].ids) \notin DOMAIN disk'.json
                 \/ JSONPath(FirstID(loc[p].ids)) \in disk.noremove
        /\ IndexSaveReturns(p) =>
              /\ IsSome(disk'.idxYAML)
              /\ disk'.idxJSON = None \/ IndexPathJSON \in disk.noremove]_vars

\* C27, the case: an atom that had a JSON file only was saved and has a YAML
\* file only, and the index that was index.json is index.yaml
C27_Witness ==
    \E p \in Procs :
        /\ pc[p] = "done"
        /\ loc[p].op \in {"upsert", "deprecate"}
        /\ loc[p].ret.kind = "ok"
        /\ \E id \in DOMAIN init0.json :
              /\ id \notin DOMAIN init0.yaml
              /\ id \in DOMAIN disk.yaml
              /\ id \notin DOMAIN disk.json
              /\ loc[p].ret.atom[1].id = id
        /\ IsSome(init0.idxJSON)
        /\ IsSome(disk.idxYAML)
        /\ disk.idxJSON = None


\* ------------------------------------------------------------ MigrateAndRebuild (C28)
\* the atoms that were in a JSON file only when the process started
LegacyOnly == {id \in (DOMAIN init0.json) \ (DOMAIN init0.yaml) : init0.json[id].ok}

\* p's MigrateAndRebuild has returned, and no file of the directory is one that
\* a read or a removal fails on
MigrateDone(p) ==
    /\ pc[p] = "done"
    /\ loc[p].op = "migrate"
    /\ calls = 1
    /\ loc[p].ret.kind = "ok"
    /\ init0.noread = {}
    /\ init0.noremove = {}

\* C28: after MigrateAndRebuild, run without I/O failure, every atom that was
\* in a JSON file only is in a YAML file only, with the same values; the IDs
\* that had a YAML file have the files they had; the count returned is the
\* number of atoms that were in a JSON file only; and the Catalog, cached and
\* persisted, is the rebuild of the migrated repository.
C28_MigrateMovesLegacyOnly ==
    \A p \in Procs :
        MigrateDone(p) =>
            /\ \A id \in LegacyOnly :
                  /\ id \in DOMAIN disk.yaml
                  /\ id \notin DOMAIN disk.json
                  /\ disk.yaml[id] = Good(init0.json[id].v)
            /\ \A id \in DOMAIN init0.yaml :
                  /\ id \in DOMAIN disk.yaml
                  /\ disk.yaml[id] = init0.yaml[id]
                  /\ (id \in DOMAIN disk.json) = (id \in DOMAIN init0.json)
                  /\ id \in DOMAIN init0.json => disk.json[id] = init0.json[id]
            /\ loc[p].ret.migrated = Cardinality(LegacyOnly)
            /\ RebuiltFrom(PersistedAtoms(disk), disk)
            /\ RebuiltFrom(IndexAtoms(cache["tools"][1]), disk)
            /\ loc[p].ret.count = Len(PersistedAtoms(disk))

\* C28, the case: MigrateAndRebuild has migrated an atom that was in a JSON file
\* only, beside an ID that had both files
C28_Witness ==
    \E p \in Procs :
        /\ MigrateDone(p)
        /\ loc[p].ret.migrated = 1
        /\ LegacyOnly # {}
        /\ (DOMAIN init0.yaml) \cap (DOMAIN init0.json) # {}
        /\ loc[p].ret.count = 2


\* ------------------------------------------------------------ Load (C29, C30)
\* p's GetAtom has returned Load's result for id
LoadReturned(p, id) ==
    /\ pc[p] = "done"
    /\ loc[p].op = "get"
    /\ loc[p].arg = id

\* C29: when the YAML file of an ID exists and cannot be read, Load returns an
\* error: not the not-found signal, not the content of the JSON file.
C29_UnreadableCanonicalIsError ==
    \A p \in Procs : \A id \in DOMAIN disk.yaml :
        (LoadReturned(p, id) /\ YAMLPath(id) \in disk.noread) => loc[p].ret.kind = "error"

\* C30: with files that can be read, Load returns the atom of the YAML file
\* whenever there is one (also beside a JSON file), the atom of the JSON file
\* when there is only that, nil without error when there is neither, and an
\* error when the file it selected does not decode.
C30_LoadSelectsFile ==
    \A p \in Procs : \A id \in TargetIDs :
        (LoadReturned(p, id) /\ YAMLPath(id) \notin disk.noread /\ JSONPath(id) \notin disk.noread) =>
            loc[p].ret =
                IF id \in DOMAIN disk.yaml
                THEN IF disk.yaml[id].ok THEN [kind |-> "ok", atom |-> Some(UnmarshalAtom(disk.yaml[id].v))]
                                         ELSE [kind |-> "error"]
                ELSE IF id \in DOMAIN disk.json
                THEN IF disk.json[id].ok THEN [kind |-> "ok", atom |-> Some(UnmarshalAtom(disk.json[id].v))]
                                         ELSE [kind |-> "error"]
                ELSE [kind |-> "ok", atom |-> None]

\* C30, the case: Load has returned the atom of the YAML file of an ID that has
\* a different atom in its JSON file
C30_Witness ==
    \E p \in Procs : \E id \in (DOMAIN disk.yaml) \cap (DOMAIN disk.json) :
        /\ LoadReturned(p, id)
        /\ disk.yaml[id].ok
        /\ disk.json[id].ok
        /\ disk.json[id].v # disk.yaml[id].v
        /\ loc[p].ret = [kind |-> "ok", atom |-> Some(UnmarshalAtom(disk.yaml[id].v))]


\* ------------------------------------------------------------ Save, Load, Delete in sequence (C31)
\* the layouts whose files can all be read, decoded and removed
PlainLayouts == [1..MaxLegacy -> {"none", "good"} \X {"none", "good"}]

InitStorage == \E layout \in PlainLayouts : InitWith(LegacyStore(layout, "none"))

\* One caller makes calls that save (Upsert, DeleteAtom), delete (PurgeAtom) and
\* load (GetAtom) atoms, one after the other.
BeginStorage(p) ==
    \/ \E input \in UpsertInputs : UpsertBegin(p, input)
    \/ \E id \in TargetIDs : DeleteAtomBegin(p, id)
    \/ \E id \in TargetIDs : PurgeAtomBegin(p, id)
    \/ \E id \in TargetIDs : GetAtomBegin(p, id)

StepStorage(p) ==
    \/ LoadLocked(p)
    \/ GetNextID(p)
    \/ SaveWrite(p)
    \/ SaveCleanup(p)
    \/ AddOrUpdate(p)
    \/ DeleteStat(p)
    \/ DeleteRemove(p)
    \/ Remove(p)

NextStorage ==
    \/ Quiescent /\ BeginStorage(1)
    \/ StepStorage(1)
    \/ Tick

SpecStorage == InitStorage /\ [][NextStorage]_vars

\* the step in which p's AtomStorage.Save of an atom with this ID writes the file
SaveStep(p, id) == pc[p] = "save" /\ pc'[p] # "save" /\ loc[p].atom[1].id = id

\* the step in which p's AtomStorage.Delete of this ID returns true
DeleteStep(p, id) == pc[p] = "delrm" /\ pc'[p] = "rmidx" /\ loc[p].arg = id

\* C31: Load of an ID returns an atom equal in every field to the one given to
\* the latest Save of that ID when no Delete of the ID came after it, and nil
\* (not found) after a Delete: a Save step makes Load return the saved atom, a
\* Delete step makes it return nil, no other step changes what Load returns,
\* and GetAtom returns what Load returns.
C31_LoadReturnsLatestSave ==
    /\ [](\A p \in Procs : \A id \in TargetIDs :
             LoadReturned(p, id) => loc[p].ret = [kind |-> "ok", atom |-> StorageLoad(disk, id).atom])
    /\ [][\A id \in RepoIDs(disk) \cup RepoIDs(disk') \cup TargetIDs :
             /\ \A p \in Procs :
                   SaveStep(p, id) =>
                       StorageLoad(disk', id) = [err |-> FALSE, atom |-> Some(loc[p].atom[1])]
             /\ \A p \in Procs :
                   DeleteStep(p, id) => StorageLoad(disk', id) = [err |-> FALSE, atom |-> None]
             /\ (\A p \in Procs : ~SaveStep(p, id) /\ ~DeleteStep(p, id)) =>
                   StorageLoad(disk', id) = StorageLoad(disk, id)]_vars

\* C31, the case: GetAtom has returned an atom saved over the one of a legacy
\* file, with no language set
C31_Witness ==
    \E p \in Procs : \E id \in (DOMAIN init0.json) \ (DOMAIN disk.json) :
        /\ LoadReturned(p, id)
        /\ IsSome(loc[p].ret.atom)
        /\ Len(loc[p].ret.atom[1].notes) = 2
        /\ loc[p].ret.atom[1].language = None
        /\ loc[p].ret.atom[1].updatedAt = MaxDay


\* ------------------------------------------------------------ GetSummary (C32)
\* the grouping keys callers pass: the three GetSummary knows and one it does not
GroupKeys == {"type", "tag", "language", "status"}

\* AtomTools.GetSummary, up to the GetIndex call
GetSummaryBegin(p, groupBy) ==
    /\ Enter(p)
    /\ pc' = [pc EXCEPT ![p] = "getidx"]
    /\ loc' = [loc EXCEPT ![p] = [NoLoc EXCEPT !.op = "summary", !.arg = groupBy, !.im = "tools",
                                               !.today = now]]

\* groups[key] = append(groups[key], item)
AddToGroup(groups, key, item) ==
    Put(groups, key, IF key \in DOMAIN groups THEN Append(groups[key], item) ELSE <<item>>)

RECURSIVE AddToTagGroups(_, _, _)
\* "for _, tag := range entry.Tags": the item goes into the group of every tag
AddToTagGroups(groups, tags, item) ==
    IF tags = <<>> THEN groups
    ELSE AddToTagGroups(AddToGroup(groups, Head(tags), item), Tail(tags), item)

\* the groups after the switch statement has run for one entry
Grouped(groups, groupBy, entry) ==
    IF groupBy = "type"
    THEN AddToGroup(groups, entry.type, [id |-> entry.id, title |-> entry.title, status |-> entry.status])
    ELSE IF groupBy = "tag"
    THEN AddToTagGroups(groups, entry.tags, [id |-> entry.id, title |-> entry.title, type |-> entry.type])
    ELSE AddToGroup(groups, IF IsSome(entry.language) THEN entry.language[1] ELSE "unspecified",
                    [id |-> entry.id, title |-> entry.title, type |-> entry.type])

\* one round of "for _, entry := range index.Atoms" in GetSummary: the default
\* case of the switch returns the error payload
SummaryStep(p) ==
    /\ pc[p] = "scan"
    /\ loc[p].op = "summary"
    /\ IF loc[p].arg \in {"type", "tag", "language"}
       THEN /\ loc' = [loc EXCEPT ![p].res = Grouped(loc[p].res, loc[p].arg, Elem(p)), ![p].i = @ + 1]
            /\ pc' = [pc EXCEPT ![p] = IF loc[p].i >= loc[p].hlen THEN "finish" ELSE "scan"]
       ELSE /\ loc' = [loc EXCEPT ![p] = Returned(loc[p], [kind |-> "ok", val |-> [error |-> loc[p].arg]])]
            /\ pc' = [pc EXCEPT ![p] = "done"]
    /\ UNCHANGED <<disk, cache, mu, now, calls, crashes, saved, init0>>

\* GetSummary after the loop: the summary payload with a count per group
SummaryFinish(p) ==
    /\ pc[p] = "finish"
    /\ loc[p].op = "summary"
    /\ pc' = [pc EXCEPT ![p] = "done"]
    /\ loc' = [loc EXCEPT ![p] =
                  Returned(loc[p],
                           [kind |-> "ok",
                            val |-> [group_by |-> loc[p].arg, total_atoms |-> loc[p].hlen,
                                     groups |-> [k \in DOMAIN loc[p].res |->
                                                    [count |-> Len(loc[p].res[k]),
                                                     items |-> loc[p].res[k]]]]])]
    /\ UNCHANGED <<disk, cache, mu, now, calls, crashes, saved, init0>>

\* One caller asks for summaries of a catalog of up to MaxCatalog entries.
StepSummary(p) ==
    \/ LoadLocked(p)
    \/ GetIndex(p)
    \/ SummaryStep(p)
    \/ SummaryFinish(p)

NextSummary ==
    \/ \E groupBy \in GroupKeys : Quiescent /\ GetSummaryBegin(1, groupBy)
    \/ StepSummary(1)
    \/ Tick

SpecSummary == InitSearch /\ [][NextSummary]_vars

\* C32: GetSummary with a grouping key other than type, tag and language
\* returns the error payload, whatever the Catalog holds, also when it holds
\* nothing; it does not return a summary payload.
C32_UnknownKeyIsErrorResult ==
    \A p \in Procs :
        (pc[p] = "done" /\ loc[p].op = "summary" /\ loc[p].arg \notin {"type", "tag", "language"})
        => /\ loc[p].ret.kind = "ok"
           /\ DOMAIN loc[p].ret.val = {"error"}


\* ------------------------------------------------------------ every call returns (C33)
\* a storage directory in which the first ID has both files and the others a
\* legacy file only, with an index file
MixedLayout == [k \in 1..MaxLegacy |-> IF k = 1 THEN <<"good", "good">> ELSE <<"none", "good">>]

\* the same directory with an index file that does not decode, so that the
\* calls that load the index fail
BrokenIndexStore == [LegacyStore(MixedLayout, "yaml") EXCEPT !.idxYAML = Some(Corrupt)]

InitLive == InitWith(LegacyStore(MixedLayout, "yaml")) \/ InitWith(BrokenIndexStore)

\* one call of every kind: a create, an update, a deprecation and a purge of
\* the first ID, the rebuilds, a listing and a search
BeginLive(p) ==
    \/ \E input \in {InputB, [InputA EXCEPT !.id = Some(FormatID(1))]} : UpsertBegin(p, input)
    \/ DeleteAtomBegin(p, FormatID(1))
    \/ PurgeAtomBegin(p, FormatID(1))
    \/ RebuildBegin(p)
    \/ MigrateBegin(p)
    \/ ListAtomsBegin(p, [f |-> NoFilter, limit |-> 10])
    \/ SearchBegin(p, [query |-> <<<<"E">>>>, f |-> NoFilter, limit |-> 10])

StepLive(p) ==
    \/ Step(p)
    \/ SaveCleanup(p)
    \/ MigrateStep(p)
    \/ MigrateSave(p)
    \/ MigrateRebuild(p)

NextLive ==
    \/ \E p \in Procs : pc[p] = "idle" /\ BeginLive(p)
    \/ \E p \in Procs : StepLive(p)

\* Concurrent callers, one call each, every running call scheduled again and
\* again (goroutines are; a goroutine blocked in Lock is woken once the mutex is
\* released).
SpecLive == InitLive /\ [][NextLive]_vars /\ \A p \in Procs : WF_vars(StepLive(p))

\* p's call has started and not returned
Running(p) == pc[p] \notin {"idle", "done"}

\* C33: every call that has started returns (a result or an error), and a
\* mutex is held by a running call only: a call that has returned has released
\* the lock, whatever it returned.
C33_EveryCallReturns ==
    /\ \A p \in Procs : Running(p) ~> pc[p] = "done"
    /\ [](\A im \in IMs : mu[im] # 0 => Running(mu[im]))

\* C33, the case: a call is waiting for the mutex that another call holds,
\* MigrateAndRebuild about to call RebuildFromAtoms behind a rebuild
C33_Witness ==
    \E p, q \in Procs :
        /\ pc[p] = "migrate"
        /\ loc[p].ids = {}
        /\ mu["tools"] = q
        /\ q # p


\* ------------------------------------------------------------ the form of IDs (C34)
\* "K-" followed by exactly 6 decimal digits
WellFormedID(id) == Len(id) = 8 /\ MatchesKDigits(id)

\* C34: every ID with an atom file and every ID in a Catalog list (persisted or
\* cached) is K- and 6 digits, and no Catalog list holds an ID twice, whatever
\* calls of Upsert, DeleteAtom, PurgeAtom and RebuildIndex came before.
C34_IDsWellFormedAndDistinct ==
    /\ \A id \in RepoIDs(disk) : WellFormedID(id)
    /\ \A atoms \in CatalogLists :
          /\ \A k \in 1..Len(atoms) : WellFormedID(atoms[k].id)
          /\ DistinctIDs(atoms)


\* ------------------------------------------------------------ the cache of an IndexManager (C35)
\* a caller of IndexManager.InvalidateCache
InvalidateCacheBegin(p, im) ==
    /\ Enter(p)
    /\ pc' = [pc EXCEPT ![p] = "invalidate"]
    /\ loc' = [loc EXCEPT ![p] = [NoLoc EXCEPT !.op = "invalidate", !.arg = im, !.im = im, !.today = now]]

\* IndexManager.InvalidateCache: Lock, m.index = nil, Unlock
InvalidateCache(p) ==
    /\ pc[p] = "invalidate"
    /\ LockFree(loc[p].im)
    /\ cache' = [cache EXCEPT ![loc[p].im] = None]
    /\ loc' = [Frozen(loc, loc[p].im) EXCEPT ![p] = Returned(loc[p], [kind |-> "ok"])]
    /\ pc' = [pc EXCEPT ![p] = "done"]
    /\ UNCHANGED <<disk, mu, now, calls, crashes, saved, init0>>

\* a caller of IndexManager.Save
SaveIndexBegin(p, im) ==
    /\ Enter(p)
    /\ pc' = [pc EXCEPT ![p] = "saveidx"]
    /\ loc' = [loc EXCEPT ![p] = [NoLoc EXCEPT !.op = "save", !.arg = im, !.im = im, !.today = now]]

\* IndexManager.Save: Lock, saveLocked (which returns at once when m.index is
\* nil), Unlock
SaveIndex(p) ==
    /\ pc[p] = "saveidx"
    /\ LockFree(loc[p].im)
    /\ disk' = IF IsSome(cache[loc[p].im]) THEN SaveIndexFile(disk, cache[loc[p].im][1]) ELSE disk
    /\ loc' = [loc EXCEPT ![p] = Returned(loc[p], IF IsSome(cache[loc[p].im])
                                                   THEN SaveResult(disk, [kind |-> "ok"])
                                                   ELSE [kind |-> "ok"])]
    /\ pc' = [pc EXCEPT ![p] = "done"]
    /\ UNCHANGED <<cache, mu, now, calls, crashes, saved, init0>>

\* a caller of IndexManager.GetIndex that keeps what it returns
ReadIndexBegin(p, im) ==
    /\ Enter(p)
    /\ pc' = [pc EXCEPT ![p] = "readidx"]
    /\ loc' = [loc EXCEPT ![p] = [NoLoc EXCEPT !.op = "getIndex", !.arg = im, !.im = im, !.today = now]]

\* what a caller sees of an index: its version and its entry list
CatalogValue(ix) == [version |-> ix.version, atoms |-> IndexAtoms(ix)]

\* IndexManager.GetIndex returning to that caller
ReadIndex(p) ==
    /\ pc[p] = "readidx"
    /\ CanRun(p)
    /\ cache' = [cache EXCEPT ![loc[p].im] = Some(Cur(p))]
    /\ mu' = Unlock(loc[p].im)
    /\ loc' = [AfterStore(loc[p].im, Cur(p), Loaded(p)) EXCEPT
                  ![p] = Returned(loc[p], [kind |-> "ok", index |-> CatalogValue(Cur(p))])]
    /\ pc' = [pc EXCEPT ![p] = "done"]
    /\ UNCHANGED <<disk, now, calls, crashes, saved, init0>>

\* Callers use the two IndexManagers one call at a time: AddOrUpdate and Remove
\* on the shared one, RebuildFromAtoms on the one of AtomTools, InvalidateCache,
\* GetIndex and Save on either.
BeginCache(p) ==
    \/ \E entry \in DirectEntries : DirectAddBegin(p, entry)
    \/ \E id \in DirectRemoveIDs : DirectRemoveBegin(p, id)
    \/ RebuildBegin(p)
    \/ \E im \in IMs : InvalidateCacheBegin(p, im)
    \/ \E im \in IMs : ReadIndexBegin(p, im)
    \/ \E im \in IMs : SaveIndexBegin(p, im)

StepCache(p) ==
    \/ LoadLocked(p)
    \/ AddOrUpdate(p)
    \/ Remove(p)
    \/ RebuildLoad(p)
    \/ RebuildSave(p)
    \/ InvalidateCache(p)
    \/ ReadIndex(p)
    \/ SaveIndex(p)

NextCache ==
    \/ \E p \in Procs : Quiescent /\ BeginCache(p)
    \/ \E p \in Procs : StepCache(p)
    \/ Tick

SpecCache == Init /\ [][NextCache]_vars

\* the IndexManager a mutating call works on
ManagerOf(op) == IF op = "rebuild" THEN "tools" ELSE "shared"

\* the step in which p's AddOrUpdate, Remove (of an entry that was there) or
\* RebuildFromAtoms returns without error
MutationReturns(p) ==
    /\ \/ pc[p] # "done"
       \/ calls' # calls /\ \A q \in Procs \ {p} : pc'[q] = pc[q] /\ loc'[q] = loc[q]
    /\ pc'[p] = "done"
    /\ loc'[p].op \in {"addOrUpdate", "remove", "rebuild"}
    /\ loc'[p].ret.kind = "ok"
    /\ loc'[p].op = "remove" => loc'[p].ret.removed

\* what GetIndex on im returns in this state of memory and files
Visible(c, d, im) == CatalogValue(IF IsSome(c[im]) THEN c[im][1] ELSE LoadIndexFile(d, 0).ix)

\* C35: when AddOrUpdate, Remove or RebuildFromAtoms has returned, the cached
\* Catalog has the version and the entry list (in order) of the index file, so
\* that GetIndex returns the same before and after an InvalidateCache:
\* InvalidateCache drops the cache and writes nothing, GetIndex returns the
\* cached Catalog or else the one of the index file, and Save with nothing
\* cached writes nothing.
C35_CacheEqualsIndexFile ==
    [][\A p \in Procs :
        /\ MutationReturns(p) =>
              /\ IsSome(cache'[ManagerOf(loc'[p].op)])
              /\ IsSome(disk'.idxYAML)
              /\ CatalogValue(cache'[ManagerOf(loc'[p].op)][1]) = CatalogValue(LoadIndexFile(disk', 0).ix)
              /\ Visible([cache' EXCEPT ![ManagerOf(loc'[p].op)] = None], disk', ManagerOf(loc'[p].op))
                    = Visible(cache', disk', ManagerOf(loc'[p].op))
        /\ (pc[p] = "invalidate" /\ pc'[p] = "done") =>
              /\ cache' = [cache EXCEPT ![loc[p].im] = None]
              /\ disk' = disk
        /\ (pc[p] = "readidx" /\ pc'[p] = "done" /\ loc'[p].ret.kind = "ok") =>
              loc'[p].ret.index = Visible(cache, disk, loc[p].im)
        /\ (pc[p] = "saveidx" /\ pc'[p] = "done" /\ cache[loc[p].im] = None) =>
              /\ disk' = disk
              /\ cache' = cache]_vars

\* C35, the case: an entry was added, the cache was invalidated, and GetIndex
\* has loaded the index file and returned the list with the entry
C35_Witness ==
    /\ calls = 3
    /\ pc[1] = "done" /\ loc[1].op = "invalidate" /\ loc[1].arg = "shared"
    /\ pc[2] = "done" /\ loc[2].op = "getIndex" /\ loc[2].arg = "shared"
    /\ loc[2].ret.kind = "ok"
    /\ FormatID(3) \in IDsOf(loc[2].ret.index.atoms)
    /\ IsSome(cache["shared"])


\* ------------------------------------------------------------ AddOrUpdate keeps the other entries (C36)
\* the IDs that two entry lists share stand in the same relative order in both
SameRelativeOrder(a, b) ==
    \A i, j \in 1..Len(a) : \A k, l \in 1..Len(b) :
        (i < j /\ a[i].id = b[k].id /\ a[j].id = b[l].id) => k < l

\* position of the entry with this ID in an entry list, 0 when there is none
PosIn(atoms, id) ==
    IF \E k \in 1..Len(atoms) : atoms[k].id = id
    THEN CHOOSE k \in 1..Len(atoms) : atoms[k].id = id /\ \A j \in 1..(k - 1) : atoms[j].id # id
    ELSE 0

\* C36: when IndexManager.AddOrUpdate(entry) returns, the Catalog (cached and
\* in the index file) is the one from before the call with the entry put at the
\* position of the entry with the same ID, all other entries and the length
\* unchanged, or, when the ID is new, with the entry appended at the end; and
\* no step changes the relative order of the entries a cached Catalog keeps (a
\* rebuild starts from the empty list).
C36_AddOrUpdateReplacesOrAppends ==
    [][/\ \A p \in Procs :
            (pc[p] = "addidx" /\ pc'[p] = "done" /\ loc[p].op = "addOrUpdate") =>
                LET before == Visible(cache, disk, loc[p].im).atoms
                    after == Visible(cache', disk', loc[p].im).atoms
                    entry == loc[p].arg
                    k == PosIn(before, entry.id)
                IN /\ PersistedAtoms(disk') = after
                   /\ IF k # 0
                      THEN /\ Len(after) = Len(before)
                           /\ after[k] = entry
                           /\ \A j \in 1..Len(before) : j # k => after[j] = before[j]
                      ELSE after = Append(before, entry)
       /\ \A im \in IMs :
            (IsSome(cache[im]) /\ IsSome(cache'[im]))
            => SameRelativeOrder(IndexAtoms(cache[im][1]), IndexAtoms(cache'[im][1]))]_vars

\* C36, the case: AddOrUpdate has put a different entry in the place of the
\* first of two entries, and the second one is as it was stored
C36_Witness ==
    \E p \in Procs :
        /\ pc[p] = "done" /\ loc[p].op = "addOrUpdate"
        /\ loc[p].arg.id = FormatID(1)
        /\ PersistedAtoms(init0) # <<>>
        /\ PersistedAtoms(init0)[1] # loc[p].arg
        /\ Len(PersistedAtoms(disk)) = 2
        /\ PersistedAtoms(disk)[1] = loc[p].arg
        /\ PersistedAtoms(disk)[2] = PersistedAtoms(init0)[2]


\* ------------------------------------------------------------ Remove keeps the other entries (C37)
\* the step in which p's IndexManager.Remove returns
RemoveReturns(p) == pc[p] = "rmidx" /\ pc'[p] = "done" /\ loc[p].op = "remove"

\* an entry list without its k-th entry
Without(atoms, k) == SubSeq(atoms, 1, k - 1) \o SubSeq(atoms, k + 1, Len(atoms))

\* C37: IndexManager.Remove(id) with the ID in the Catalog returns true, and the
\* entry list (cached and in the index file) is the one before the call without
\* that entry, the others in their order; with the ID absent it returns false,
\* writes no file, and leaves a cached Catalog as it was, updatedAt included
\* (with nothing cached, the cache receives the Catalog of the index file).
C37_RemoveDeletesExactlyOne ==
    [][\A p \in Procs : RemoveReturns(p) =>
          LET im == loc[p].im
              before == Visible(cache, disk, im).atoms
              after == Visible(cache', disk', im).atoms
              k == PosIn(before, loc[p].arg)
          IN IF k # 0
             THEN /\ loc'[p].ret.removed
                  /\ after = Without(before, k)
                  /\ PersistedAtoms(disk') = after
             ELSE /\ ~loc'[p].ret.removed
                  /\ disk' = disk
                  /\ IsSome(cache'[im])
                  /\ IsSome(cache[im]) =>
                        /\ IndexAtoms(cache'[im][1]) = IndexAtoms(cache[im][1])
                        /\ cache'[im][1].updatedAt = cache[im][1].updatedAt
                        /\ cache'[im][1].version = cache[im][1].version
                  /\ (~IsSome(cache[im]) /\ IsSome(disk.idxYAML)) =>
                        /\ after = before
                        /\ cache'[im][1].updatedAt = LoadIndexFile(disk, 0).ix.updatedAt]_vars

\* C37, the case: the first of two entries was removed and the second one is
\* left, and a Remove of an ID that is not in the Catalog has returned false on
\* a later day with the cached updatedAt still the one of the removal
C37_Witness ==
    \E p, q \in Procs :
        /\ pc[p] = "done" /\ loc[p].op = "remove" /\ loc[p].ret.removed
        /\ pc[q] = "done" /\ loc[q].op = "remove" /\ ~loc[q].ret.removed
        /\ Len(PersistedAtoms(init0)) = 2
        /\ PersistedAtoms(disk) = <<PersistedAtoms(init0)[2]>>
        /\ IsSome(cache["shared"])
        /\ cache["shared"][1].updatedAt < now


\* ------------------------------------------------------------ a create and the stored atoms (C38)
\* the step in which Save writes the atom file of p's Upsert without ID
CreateWrites(p) ==
    /\ pc[p] = "save" /\ pc'[p] # "save" /\ crashes' = crashes
    /\ loc[p].op = "upsert" /\ ~HasID(loc[p].arg)

\* C38: when an Upsert without ID writes its atom file, no atom file with the
\* allocated ID exists, also after the process stopped between an atom write and
\* the index write.
C38_CreateNeverOverwrites ==
    [][\A p \in Procs : CreateWrites(p) => loc[p].atom[1].id \notin RepoIDs(disk)]_vars


\* ------------------------------------------------------------ allocated IDs (C39)
\* One process, one call at a time: Upsert without ID and PurgeAtom, over a
\* storage directory that holds up to MaxInitAtoms atoms.
BeginAlloc(p) ==
    \/ \E input \in {InputA, InputB} : UpsertBegin(p, input)
    \/ \E id \in {FormatID(k) : k \in 1..3} : PurgeAtomBegin(p, id)

StepAlloc(p) ==
    \/ LoadLocked(p)
    \/ GetNextID(p)
    \/ SaveWrite(p)
    \/ AddOrUpdate(p)
    \/ DeleteStat(p)
    \/ DeleteRemove(p)
    \/ Remove(p)

NextAlloc ==
    \/ \E p \in Procs : Quiescent /\ BeginAlloc(p)
    \/ \E p \in Procs : StepAlloc(p)
    \/ Tick

SpecAlloc == Init /\ [][NextAlloc]_vars

\* the number in the ID of an atom that was written at some time
Suffixes == {SscanfKd(e.id).num : e \in saved}

\* C39: the number of every ID that GetNextID hands to a create is above the
\* numbers of all IDs that atoms were written under before, whatever creates
\* and purges came before.
C39_AllocatedIDsIncrease ==
    [][\A p \in Procs :
          (pc[p] = "nextid" /\ pc'[p] # "nextid")
          => \A n \in Suffixes : n < SscanfKd(loc'[p].atom[1].id).num]_vars


\* ------------------------------------------------------------ a failed index write (C40)
\* The callers of SpecCache over a storage directory whose index.yaml may be a
\* file that os.WriteFile fails on.
InitFail == \E n \in 0..MaxInitAtoms : \E w \in {{}, {IndexPath}} : InitWith([Store(n) EXCEPT !.nowrite = w])

SpecFail == InitFail /\ [][NextCache]_vars

\* the step in which p's AddOrUpdate or Remove comes back from a saveLocked that
\* failed
SaveFailed(p) ==
    /\ pc[p] \in {"addidx", "rmidx"} /\ pc'[p] = "done"
    /\ SaveIndexFails(disk)
    /\ pc[p] = "rmidx" => PosIn(Visible(cache, disk, loc[p].im).atoms, loc[p].arg) # 0

\* C40: when saveLocked fails in AddOrUpdate or Remove, the call returns the
\* error, and GetIndex on the same manager returns the Catalog it returned
\* before the call.
C40_FailedSaveLeavesCache ==
    [][\A p \in Procs : SaveFailed(p) =>
          /\ loc'[p].ret.kind = "error"
          /\ Visible(cache', disk', loc[p].im) = Visible(cache, disk, loc[p].im)]_vars

=============================================================================
